---- MODULE Spec2Model ----
(***************************************************************************)
(* A model of the YAML processor: the event parser (parserc), the          *)
(* tree-builder and the decoder (decode.go) and the tag resolver's caches. *)
(*                                                                         *)
(* The scanner is abstracted to its token stream: a token is fetched on    *)
(* demand and is any token the scanner can produce, the first one being    *)
(* STREAM-START and every token after a STREAM-END being STREAM-END again  *)
(* (yaml_parser_fetch_next_token keeps answering STREAM-END at the end of  *)
(* the input).  Marks carry no positions: only their number matters.       *)
(***************************************************************************)
EXTENDS Integers, Sequences, FiniteSets, TLC

VARIABLES
    parser,     \* the YamlParser structure (parser and abstract scanner fields)
    last,       \* what the last Parse call returned
    errored,    \* TRUE once a Parse call has returned an error
    gram,       \* position of the returned events in the event grammar
    stream,     \* what the returned events said so far: counts, latest anchors
    builder,    \* the tree-builder (decode.go parser): event, anchors, call stack
    result,     \* what the tree-builder's parse() calls returned to the caller
    decoder,    \* the decoder (decode.go decoder): counters, alias set, call stack
    resolve,    \* the package variables of internal/resolve and their users
    binder,     \* the decoder binding a mapping with merge keys: d.mergedFields, d.typeErrors, out
    encoder,    \* the Encoder, its writer and the call that returned last
    lexer,      \* the scanner over its byte source
    parse_calls, \* the number of the watched Parse calls that have returned, modulo 2
    tokenizer,  \* the scanner over its text, with the parser taking its tokens
    commented   \* parser.mapping building a node from events that carry foot comments

\* ---------------------------------------------------------------------------
\* Bounds

\* Deepest parser States stack explored.
MaxDepth == 3
\* Most tokens the scanner hands out before the end of the input.
MaxTokens == 5
\* Most calls the caller still makes after a call that failed.
MaxRetries == 1

\* The documents of the decoder: level 0 .. Levels, each of Fanout items.
Fanout == 9

Levels == 3

\* The instances that use the resolver's tag caches in parallel.
Instances == 2

\* ---------------------------------------------------------------------------
\* Tokens and events

AnchorNames == {"a"}
TagHandles  == {"!!", "!e!"}

Tok(type, value) == [Type |-> type, Value |-> value]

\* The tokens the scanner can produce after STREAM-START.
ScannerTokens ==
    { Tok(t, "") : t \in {"STREAM_END", "DOCUMENT_START", "DOCUMENT_END",
                          "BLOCK_SEQUENCE_START", "BLOCK_MAPPING_START", "BLOCK_END",
                          "FLOW_SEQUENCE_START", "FLOW_SEQUENCE_END",
                          "FLOW_MAPPING_START", "FLOW_MAPPING_END",
                          "BLOCK_ENTRY", "FLOW_ENTRY", "KEY", "VALUE", "SCALAR"} }
    \cup { Tok("VERSION_DIRECTIVE", v) : v \in {"1.1", "1.2"} }
    \cup { Tok("TAG_DIRECTIVE", "!e!") }
    \cup { Tok("TAG", h) : h \in TagHandles }
    \cup { Tok(t, a) : t \in {"ANCHOR", "ALIAS"}, a \in AnchorNames }

Event(type, anchor, tag, style) ==
    [Type |-> type, Anchor |-> anchor, Tag |-> tag, Style |-> style]

NoEvent == Event("NO_EVENT", "", "", "")

\* ---------------------------------------------------------------------------
\* Results of a parser function: an event, an error, a Go panic, or "need"
\* when the function asks the scanner for a token that is not fetched yet.

Ok(p, e)        == [kind |-> "event", p |-> p, event |-> e, problem |-> ""]
Fail(p, msg)    == [kind |-> "error", p |-> p, event |-> NoEvent, problem |-> msg]
GoPanic(p, msg) == [kind |-> "panic", p |-> p, event |-> NoEvent, problem |-> msg]
NeedToken(p)    == [kind |-> "need", p |-> p, event |-> NoEvent, problem |-> ""]

\* The flow indicators taken from the queue: those that open less those that
\* close, for sequences and for mappings.
FlowOpen(open, type) ==
    CASE type = "FLOW_SEQUENCE_START" -> [open EXCEPT !.seq = @ + 1]
      [] type = "FLOW_SEQUENCE_END" -> [open EXCEPT !.seq = @ - 1]
      [] type = "FLOW_MAPPING_START" -> [open EXCEPT !.map = @ + 1]
      [] type = "FLOW_MAPPING_END" -> [open EXCEPT !.map = @ - 1]
      [] OTHER -> open

\* peek_token: the head of the queue, after yaml_parser_fetch_more_tokens
\* made one available or failed.
peek_token(p) == IF p.Tokens # <<>> THEN Head(p.Tokens) ELSE Tok("", "")

\* The error return of a peek_token call: the scanner failed; or the token is
\* still to be fetched.
no_token(p) == IF p.Fetch_error THEN Fail(p, "scanner error") ELSE NeedToken(p)

\* skip_token; Taken, Flow_open and Directives_taken are monitors: the tokens
\* the call in progress has taken from the queue, in order; the opening minus
\* the closing flow indicators taken since the parser was made; and the number
\* of %TAG directives taken since then.
skip_token(p) ==
    [p EXCEPT !.Tokens_parsed = @ + 1,
              !.Stream_end_produced = (Head(p.Tokens).Type = "STREAM_END"),
              !.Tokens = Tail(@),
              !.Taken = Append(@, Head(p.Tokens)),
              !.Flow_open = FlowOpen(@, Head(p.Tokens).Type),
              !.Directives_taken =
                  IF Head(p.Tokens).Type = "TAG_DIRECTIVE" THEN @ + 1 ELSE @]

push_state(p, s) == [p EXCEPT !.States = Append(@, s)]

pop_state(p) ==
    [p EXCEPT !.State = p.States[Len(p.States)],
              !.States = SubSeq(@, 1, Len(@) - 1)]

push_mark(p) == [p EXCEPT !.Marks = @ + 1]
pop_mark(p)  == [p EXCEPT !.Marks = @ - 1]

yaml_parser_set_event_comments(p) == [p EXCEPT !.Tail_comment = ""]

yaml_parser_process_empty_scalar == Event("SCALAR", "", "", "plain")

\* The error paths that read parser.Marks[len(parser.Marks)-1] and pop it.
context_error(p, msg) ==
    IF p.Marks = 0 THEN GoPanic(p, "index out of range")
    ELSE Fail(pop_mark(p), msg)

\* ---------------------------------------------------------------------------
\* Directives

DefaultTagDirectives == {"!", "!!"}

yaml_parser_append_tag_directive(p, handle, allow_duplicates) ==
    IF handle \in p.Tag_directives
    THEN IF allow_duplicates THEN Ok(p, NoEvent)
         ELSE Fail(p, "found duplicate %TAG directive")
    ELSE Ok([p EXCEPT !.Tag_directives = @ \cup {handle}], NoEvent)

RECURSIVE directives_loop(_, _)
directives_loop(p, version_directive) ==
    (LET token == peek_token(p) IN
        IF token.Type = "" THEN no_token(p) ELSE
        IF token.Type = "VERSION_DIRECTIVE" THEN
            IF version_directive THEN Fail(p, "found duplicate %YAML directive")
            ELSE IF token.Value # "1.1" THEN Fail(p, "found incompatible YAML document")
            ELSE directives_loop(skip_token(p), TRUE)
        ELSE IF token.Type = "TAG_DIRECTIVE" THEN
            LET r == yaml_parser_append_tag_directive(p, token.Value, FALSE)
            IN  IF r.kind # "event" THEN r
                ELSE directives_loop(skip_token(r.p), version_directive)
        ELSE Ok([p EXCEPT !.Tag_directives = @ \cup DefaultTagDirectives], NoEvent))

yaml_parser_process_directives(p) == directives_loop(p, FALSE)

\* ---------------------------------------------------------------------------
\* Nodes

\* yaml_parser_parse_node after the properties (anchor, tag) were read.
parse_node_content(p, token, anchor, tag_token, tag_handle, block, indentless_sequence) ==
    LET tag == IF tag_token /\ tag_handle \in p.Tag_directives THEN tag_handle ELSE ""
    IN
    IF tag_token /\ tag = "" THEN Fail(p, "found undefined tag handle")
    ELSE IF indentless_sequence /\ token.Type = "BLOCK_ENTRY" THEN
        Ok([p EXCEPT !.State = "PARSE_INDENTLESS_SEQUENCE_ENTRY_STATE"],
           Event("SEQUENCE_START", anchor, tag, "block"))
    ELSE IF token.Type = "SCALAR" THEN
        Ok(skip_token(yaml_parser_set_event_comments(pop_state(p))),
           Event("SCALAR", anchor, tag, "plain"))
    ELSE IF token.Type = "FLOW_SEQUENCE_START" THEN
        Ok(yaml_parser_set_event_comments(
               [p EXCEPT !.State = "PARSE_FLOW_SEQUENCE_FIRST_ENTRY_STATE"]),
           Event("SEQUENCE_START", anchor, tag, "flow"))
    ELSE IF token.Type = "FLOW_MAPPING_START" THEN
        Ok(yaml_parser_set_event_comments(
               [p EXCEPT !.State = "PARSE_FLOW_MAPPING_FIRST_KEY_STATE"]),
           Event("MAPPING_START", anchor, tag, "flow"))
    ELSE IF block /\ token.Type = "BLOCK_SEQUENCE_START" THEN
        Ok([p EXCEPT !.State = "PARSE_BLOCK_SEQUENCE_FIRST_ENTRY_STATE"],
           Event("SEQUENCE_START", anchor, tag, "block"))
    ELSE IF block /\ token.Type = "BLOCK_MAPPING_START" THEN
        Ok([p EXCEPT !.State = "PARSE_BLOCK_MAPPING_FIRST_KEY_STATE"],
           Event("MAPPING_START", anchor, tag, "block"))
    ELSE IF anchor # "" \/ tag # "" THEN
        Ok(pop_state(p), Event("SCALAR", anchor, tag, "plain"))
    ELSE Fail(p, "did not find expected node content")

yaml_parser_parse_node(p, block, indentless_sequence) ==
    (LET token == peek_token(p) IN
        IF token.Type = "" THEN no_token(p) ELSE
        IF token.Type = "ALIAS" THEN
            Ok(skip_token(yaml_parser_set_event_comments(pop_state(p))),
               Event("ALIAS", token.Value, "", ""))
        ELSE IF token.Type = "ANCHOR" THEN
            LET p1 == skip_token(p) IN
            (LET t2 == peek_token(p1) IN
        IF t2.Type = "" THEN no_token(p1) ELSE
                IF t2.Type = "TAG" THEN
                    LET p2 == skip_token(p1) IN
                    (LET t3 == peek_token(p2) IN
        IF t3.Type = "" THEN no_token(p2) ELSE
                        parse_node_content(p2, t3, token.Value, TRUE, t2.Value,
                                           block, indentless_sequence))
                ELSE parse_node_content(p1, t2, token.Value, FALSE, "",
                                        block, indentless_sequence))
        ELSE IF token.Type = "TAG" THEN
            LET p1 == skip_token(p) IN
            (LET t2 == peek_token(p1) IN
        IF t2.Type = "" THEN no_token(p1) ELSE
                IF t2.Type = "ANCHOR" THEN
                    LET p2 == skip_token(p1) IN
                    (LET t3 == peek_token(p2) IN
        IF t3.Type = "" THEN no_token(p2) ELSE
                        parse_node_content(p2, t3, t2.Value, TRUE, token.Value,
                                           block, indentless_sequence))
                ELSE parse_node_content(p1, t2, "", TRUE, token.Value,
                                        block, indentless_sequence))
        ELSE parse_node_content(p, token, "", FALSE, "", block, indentless_sequence))

\* ---------------------------------------------------------------------------
\* Stream and documents

yaml_parser_parse_stream_start(p) ==
    (LET token == peek_token(p) IN
        IF token.Type = "" THEN no_token(p) ELSE
        IF token.Type # "STREAM_START"
        THEN Fail(p, "did not find expected <stream-start>")
        ELSE Ok(skip_token([p EXCEPT !.State = "PARSE_IMPLICIT_DOCUMENT_START_STATE"]),
                Event("STREAM_START", "", "", "")))

\* The loop over extra DOCUMENT-END tokens of an explicit document start.
RECURSIVE skip_document_ends(_)
skip_document_ends(p) ==
    (LET token == peek_token(p) IN
        IF token.Type = "" THEN no_token(p) ELSE
        IF token.Type = "DOCUMENT_END" THEN skip_document_ends(skip_token(p))
        ELSE Ok(p, NoEvent))

document_start_body(p, token, implicit) ==
    IF implicit /\ token.Type \notin {"VERSION_DIRECTIVE", "TAG_DIRECTIVE",
                                       "DOCUMENT_START", "STREAM_END"} THEN
        \* an implicit document
        LET r == yaml_parser_process_directives(p)
        IN  IF r.kind # "event" THEN r
            ELSE Ok([push_state(r.p, "PARSE_DOCUMENT_END_STATE")
                        EXCEPT !.State = "PARSE_BLOCK_NODE_STATE"],
                    Event("DOCUMENT_START", "", "", "implicit"))
    ELSE IF token.Type # "STREAM_END" THEN
        \* an explicit document
        LET r == yaml_parser_process_directives(p)
        IN  IF r.kind # "event" THEN r
            ELSE (LET t2 == peek_token(r.p) IN
        IF t2.Type = "" THEN no_token(r.p) ELSE
                IF t2.Type # "DOCUMENT_START"
                THEN Fail(r.p, "did not find expected <document start>")
                ELSE Ok(skip_token([push_state(r.p, "PARSE_DOCUMENT_END_STATE")
                                       EXCEPT !.State = "PARSE_DOCUMENT_CONTENT_STATE"]),
                        Event("DOCUMENT_START", "", "", "explicit")))
    ELSE
        \* the stream end
        Ok(skip_token([p EXCEPT !.State = "PARSE_END_STATE"]),
           Event("STREAM_END", "", "", ""))

yaml_parser_parse_document_start(p, implicit) ==
    IF implicit
    THEN (LET token == peek_token(p) IN
        IF token.Type = "" THEN no_token(p) ELSE document_start_body(p, token, TRUE))
    ELSE LET r == skip_document_ends(p)
         IN  IF r.kind # "event" THEN r
             ELSE document_start_body(r.p, Head(r.p.Tokens), FALSE)

\* A document content handler that leaves the state where it was after an
\* empty document.
document_content_without_pop(p) ==
    (LET token == peek_token(p) IN
        IF token.Type = "" THEN no_token(p) ELSE
        IF token.Type \in {"VERSION_DIRECTIVE", "TAG_DIRECTIVE", "DOCUMENT_START",
                           "DOCUMENT_END", "STREAM_END"}
        THEN Ok(p, yaml_parser_process_empty_scalar)
        ELSE yaml_parser_parse_node(p, TRUE, FALSE))

yaml_parser_parse_document_content(p) ==
    (LET token == peek_token(p) IN
        IF token.Type = "" THEN no_token(p) ELSE
        IF token.Type \in {"VERSION_DIRECTIVE", "TAG_DIRECTIVE", "DOCUMENT_START",
                           "DOCUMENT_END", "STREAM_END"}
        THEN Ok(pop_state(p), yaml_parser_process_empty_scalar)
        ELSE yaml_parser_parse_node(p, TRUE, FALSE))

\* The end of a document that leaves the table of the %TAG directives as it is.
document_end_keeps_directives(p) ==
    (LET token == peek_token(p) IN
        IF token.Type = "" THEN no_token(p) ELSE
        LET p1 == IF token.Type = "DOCUMENT_END" THEN skip_token(p) ELSE p
            p2 == [p1 EXCEPT !.State = "PARSE_DOCUMENT_START_STATE"]
        IN  Ok(yaml_parser_set_event_comments(p2),
               Event("DOCUMENT_END", "", "",
                     IF token.Type = "DOCUMENT_END" THEN "explicit" ELSE "implicit")))

yaml_parser_parse_document_end(p) ==
    (LET token == peek_token(p) IN
        IF token.Type = "" THEN no_token(p) ELSE
        LET p1 == IF token.Type = "DOCUMENT_END" THEN skip_token(p) ELSE p
            p2 == [p1 EXCEPT !.Tag_directives = {},
                             !.State = "PARSE_DOCUMENT_START_STATE"]
        IN  Ok(yaml_parser_set_event_comments(p2),
               Event("DOCUMENT_END", "", "",
                     IF token.Type = "DOCUMENT_END" THEN "explicit" ELSE "implicit")))

\* ---------------------------------------------------------------------------
\* Block collections.  yaml_parser_split_stem_comment returns at once: the
\* model carries no head comments (stem_len = 0).

\* The `if first` prologue shared by the collection states: remember the
\* mark of the collection's opening token and skip it.
first_prologue(p, first) ==
    IF first
    THEN LET token == peek_token(p) IN
         IF token.Type = "" THEN no_token(p)
         ELSE Ok(skip_token(push_mark(p)), NoEvent)
    ELSE Ok(p, NoEvent)

yaml_parser_parse_block_sequence_entry(p, first) ==
    (LET pre == first_prologue(p, first) IN
    IF pre.kind # "event" THEN pre ELSE LET p0 == pre.p IN
    (LET token == peek_token(p0) IN
        IF token.Type = "" THEN no_token(p0) ELSE
        IF token.Type = "BLOCK_ENTRY" THEN
            LET p1 == skip_token(p0) IN
            (LET t2 == peek_token(p1) IN
        IF t2.Type = "" THEN no_token(p1) ELSE
                IF t2.Type \notin {"BLOCK_ENTRY", "BLOCK_END"}
                THEN yaml_parser_parse_node(
                         push_state(p1, "PARSE_BLOCK_SEQUENCE_ENTRY_STATE"), TRUE, FALSE)
                ELSE Ok([p1 EXCEPT !.State = "PARSE_BLOCK_SEQUENCE_ENTRY_STATE"],
                        yaml_parser_process_empty_scalar))
        ELSE IF token.Type = "BLOCK_END" THEN
            IF p0.Marks = 0 THEN GoPanic(pop_state(p0), "slice bounds out of range")
            ELSE Ok(skip_token(pop_mark(pop_state(p0))),
                    Event("SEQUENCE_END", "", "", ""))
        ELSE context_error(p0, "did not find expected '-' indicator")))

yaml_parser_parse_indentless_sequence_entry(p) ==
    (LET token == peek_token(p) IN
        IF token.Type = "" THEN no_token(p) ELSE
        IF token.Type = "BLOCK_ENTRY" THEN
            LET p1 == skip_token(p) IN
            (LET t2 == peek_token(p1) IN
        IF t2.Type = "" THEN no_token(p1) ELSE
                IF t2.Type \notin {"BLOCK_ENTRY", "KEY", "VALUE", "BLOCK_END"}
                THEN yaml_parser_parse_node(
                         push_state(p1, "PARSE_INDENTLESS_SEQUENCE_ENTRY_STATE"), TRUE, FALSE)
                ELSE Ok([p1 EXCEPT !.State = "PARSE_INDENTLESS_SEQUENCE_ENTRY_STATE"],
                        yaml_parser_process_empty_scalar))
        ELSE Ok(pop_state(p), Event("SEQUENCE_END", "", "", "")))

yaml_parser_parse_block_mapping_key(p, first) ==
    (LET pre == first_prologue(p, first) IN
    IF pre.kind # "event" THEN pre ELSE LET p0 == pre.p IN
    (LET token == peek_token(p0) IN
        IF token.Type = "" THEN no_token(p0) ELSE
        IF p0.Tail_comment # "" THEN
            Ok([p0 EXCEPT !.Tail_comment = ""], Event("TAIL_COMMENT", "", "", ""))
        ELSE IF token.Type = "KEY" THEN
            LET p1 == skip_token(p0) IN
            (LET t2 == peek_token(p1) IN
        IF t2.Type = "" THEN no_token(p1) ELSE
                IF t2.Type \notin {"KEY", "VALUE", "BLOCK_END"}
                THEN yaml_parser_parse_node(
                         push_state(p1, "PARSE_BLOCK_MAPPING_VALUE_STATE"), TRUE, TRUE)
                ELSE Ok([p1 EXCEPT !.State = "PARSE_BLOCK_MAPPING_VALUE_STATE"],
                        yaml_parser_process_empty_scalar))
        ELSE IF token.Type = "BLOCK_END" THEN
            IF p0.Marks = 0 THEN GoPanic(pop_state(p0), "slice bounds out of range")
            ELSE Ok(skip_token(yaml_parser_set_event_comments(pop_mark(pop_state(p0)))),
                    Event("MAPPING_END", "", "", ""))
        ELSE context_error(p0, "did not find expected key")))

\* A block mapping value handler that makes no empty value for a key that has
\* none.
block_mapping_value_without_empty(p) ==
    (LET token == peek_token(p) IN
        IF token.Type = "" THEN no_token(p) ELSE
        IF token.Type = "VALUE" THEN
            LET p1 == skip_token(p) IN
            (LET t2 == peek_token(p1) IN
        IF t2.Type = "" THEN no_token(p1) ELSE
                IF t2.Type \notin {"KEY", "VALUE", "BLOCK_END"}
                THEN yaml_parser_parse_node(
                         push_state(p1, "PARSE_BLOCK_MAPPING_KEY_STATE"), TRUE, TRUE)
                ELSE Ok([p1 EXCEPT !.State = "PARSE_BLOCK_MAPPING_KEY_STATE"],
                        yaml_parser_process_empty_scalar))
        ELSE yaml_parser_parse_block_mapping_key(
                 [p EXCEPT !.State = "PARSE_BLOCK_MAPPING_KEY_STATE"], FALSE))

yaml_parser_parse_block_mapping_value(p) ==
    (LET token == peek_token(p) IN
        IF token.Type = "" THEN no_token(p) ELSE
        IF token.Type = "VALUE" THEN
            LET p1 == skip_token(p) IN
            (LET t2 == peek_token(p1) IN
        IF t2.Type = "" THEN no_token(p1) ELSE
                IF t2.Type \notin {"KEY", "VALUE", "BLOCK_END"}
                THEN yaml_parser_parse_node(
                         push_state(p1, "PARSE_BLOCK_MAPPING_KEY_STATE"), TRUE, TRUE)
                ELSE Ok([p1 EXCEPT !.State = "PARSE_BLOCK_MAPPING_KEY_STATE"],
                        yaml_parser_process_empty_scalar))
        ELSE Ok([p EXCEPT !.State = "PARSE_BLOCK_MAPPING_KEY_STATE"],
                yaml_parser_process_empty_scalar))

\* ---------------------------------------------------------------------------
\* Flow collections

yaml_parser_parse_flow_sequence_entry_body(p0, token, first) ==
    LET seq_end(q, t) ==
            IF q.Marks = 0 THEN GoPanic(pop_state(q), "slice bounds out of range")
            ELSE Ok(skip_token(yaml_parser_set_event_comments(pop_mark(pop_state(q)))),
                    Event("SEQUENCE_END", "", "", ""))
        entry(q, t) ==
            IF t.Type = "KEY" THEN
                Ok(skip_token([q EXCEPT !.State = "PARSE_FLOW_SEQUENCE_ENTRY_MAPPING_KEY_STATE"]),
                   Event("MAPPING_START", "", "", "flow"))
            ELSE IF t.Type # "FLOW_SEQUENCE_END" THEN
                yaml_parser_parse_node(
                    push_state(q, "PARSE_FLOW_SEQUENCE_ENTRY_STATE"), FALSE, FALSE)
            ELSE seq_end(q, t)
    IN
    IF token.Type # "FLOW_SEQUENCE_END" THEN
        IF ~first THEN
            IF token.Type = "FLOW_ENTRY" THEN
                LET p1 == skip_token(p0) IN
                (LET t2 == peek_token(p1) IN
        IF t2.Type = "" THEN no_token(p1) ELSE entry(p1, t2))
            ELSE context_error(p0, "did not find expected ',' or ']'")
        ELSE entry(p0, token)
    ELSE seq_end(p0, token)

yaml_parser_parse_flow_sequence_entry(p, first) ==
    (LET pre == first_prologue(p, first) IN
    IF pre.kind # "event" THEN pre ELSE LET p0 == pre.p IN
    (LET token == peek_token(p0) IN
        IF token.Type = "" THEN no_token(p0) ELSE
        yaml_parser_parse_flow_sequence_entry_body(p0, token, first)))

yaml_parser_parse_flow_sequence_entry_mapping_key(p) ==
    (LET token == peek_token(p) IN
        IF token.Type = "" THEN no_token(p) ELSE
        IF token.Type \notin {"VALUE", "FLOW_ENTRY", "FLOW_SEQUENCE_END"}
        THEN yaml_parser_parse_node(
                 push_state(p, "PARSE_FLOW_SEQUENCE_ENTRY_MAPPING_VALUE_STATE"), FALSE, FALSE)
        ELSE Ok([skip_token(p) EXCEPT !.State = "PARSE_FLOW_SEQUENCE_ENTRY_MAPPING_VALUE_STATE"],
                yaml_parser_process_empty_scalar))

yaml_parser_parse_flow_sequence_entry_mapping_value(p) ==
    LET empty(q) == Ok([q EXCEPT !.State = "PARSE_FLOW_SEQUENCE_ENTRY_MAPPING_END_STATE"],
                       yaml_parser_process_empty_scalar)
    IN
    (LET token == peek_token(p) IN
        IF token.Type = "" THEN no_token(p) ELSE
        IF token.Type = "VALUE" THEN
            LET p1 == skip_token(p) IN
            (LET t2 == peek_token(p1) IN
        IF t2.Type = "" THEN no_token(p1) ELSE
                IF t2.Type \notin {"FLOW_ENTRY", "FLOW_SEQUENCE_END"}
                THEN yaml_parser_parse_node(
                         push_state(p1, "PARSE_FLOW_SEQUENCE_ENTRY_MAPPING_END_STATE"),
                         FALSE, FALSE)
                ELSE empty(p1))
        ELSE empty(p))

\* The end of a single-pair mapping that leaves the parser's state as it is.
flow_sequence_entry_mapping_end_stays(p) ==
    (LET token == peek_token(p) IN
        IF token.Type = "" THEN no_token(p) ELSE
        Ok(p, Event("MAPPING_END", "", "", "")))

yaml_parser_parse_flow_sequence_entry_mapping_end(p) ==
    (LET token == peek_token(p) IN
        IF token.Type = "" THEN no_token(p) ELSE
        Ok([p EXCEPT !.State = "PARSE_FLOW_SEQUENCE_ENTRY_STATE"],
           Event("MAPPING_END", "", "", "")))

yaml_parser_parse_flow_mapping_key_body(p0, token, first) ==
    LET map_end(q, t) ==
            IF q.Marks = 0 THEN GoPanic(pop_state(q), "slice bounds out of range")
            ELSE Ok(skip_token(yaml_parser_set_event_comments(pop_mark(pop_state(q)))),
                    Event("MAPPING_END", "", "", ""))
        entry(q, t) ==
            IF t.Type = "KEY" THEN
                LET q1 == skip_token(q) IN
                (LET t2 == peek_token(q1) IN
        IF t2.Type = "" THEN no_token(q1) ELSE
                    IF t2.Type \notin {"VALUE", "FLOW_ENTRY", "FLOW_MAPPING_END"}
                    THEN yaml_parser_parse_node(
                             push_state(q1, "PARSE_FLOW_MAPPING_VALUE_STATE"), FALSE, FALSE)
                    ELSE Ok([q1 EXCEPT !.State = "PARSE_FLOW_MAPPING_VALUE_STATE"],
                            yaml_parser_process_empty_scalar))
            ELSE IF t.Type # "FLOW_MAPPING_END" THEN
                yaml_parser_parse_node(
                    push_state(q, "PARSE_FLOW_MAPPING_EMPTY_VALUE_STATE"), FALSE, FALSE)
            ELSE map_end(q, t)
    IN
    IF token.Type # "FLOW_MAPPING_END" THEN
        IF ~first THEN
            IF token.Type = "FLOW_ENTRY" THEN
                LET p1 == skip_token(p0) IN
                (LET t2 == peek_token(p1) IN
        IF t2.Type = "" THEN no_token(p1) ELSE entry(p1, t2))
            ELSE context_error(p0, "did not find expected ',' or '}'")
        ELSE entry(p0, token)
    ELSE map_end(p0, token)

yaml_parser_parse_flow_mapping_key(p, first) ==
    (LET pre == first_prologue(p, first) IN
    IF pre.kind # "event" THEN pre ELSE LET p0 == pre.p IN
    (LET token == peek_token(p0) IN
        IF token.Type = "" THEN no_token(p0) ELSE
        yaml_parser_parse_flow_mapping_key_body(p0, token, first)))

yaml_parser_parse_flow_mapping_value(p, empty) ==
    LET none(q) == Ok([q EXCEPT !.State = "PARSE_FLOW_MAPPING_KEY_STATE"],
                      yaml_parser_process_empty_scalar)
    IN
    (LET token == peek_token(p) IN
        IF token.Type = "" THEN no_token(p) ELSE
        IF empty THEN none(p)
        ELSE IF token.Type = "VALUE" THEN
            LET p1 == skip_token(p) IN
            (LET t2 == peek_token(p1) IN
        IF t2.Type = "" THEN no_token(p1) ELSE
                IF t2.Type \notin {"FLOW_ENTRY", "FLOW_MAPPING_END"}
                THEN yaml_parser_parse_node(
                         push_state(p1, "PARSE_FLOW_MAPPING_KEY_STATE"), FALSE, FALSE)
                ELSE none(p1))
        ELSE none(p))

\* ---------------------------------------------------------------------------
\* The state dispatcher and Parse

yaml_parser_state_machine(p) ==
    CASE p.State = "PARSE_STREAM_START_STATE" -> yaml_parser_parse_stream_start(p)
      [] p.State = "PARSE_IMPLICIT_DOCUMENT_START_STATE" -> yaml_parser_parse_document_start(p, TRUE)
      [] p.State = "PARSE_DOCUMENT_START_STATE" -> yaml_parser_parse_document_start(p, FALSE)
      [] p.State = "PARSE_DOCUMENT_CONTENT_STATE" -> yaml_parser_parse_document_content(p)
      [] p.State = "PARSE_DOCUMENT_END_STATE" -> yaml_parser_parse_document_end(p)
      [] p.State = "PARSE_BLOCK_NODE_STATE" -> yaml_parser_parse_node(p, TRUE, FALSE)
      [] p.State = "PARSE_BLOCK_NODE_OR_INDENTLESS_SEQUENCE_STATE" -> yaml_parser_parse_node(p, TRUE, TRUE)
      [] p.State = "PARSE_FLOW_NODE_STATE" -> yaml_parser_parse_node(p, FALSE, FALSE)
      [] p.State = "PARSE_BLOCK_SEQUENCE_FIRST_ENTRY_STATE" -> yaml_parser_parse_block_sequence_entry(p, TRUE)
      [] p.State = "PARSE_BLOCK_SEQUENCE_ENTRY_STATE" -> yaml_parser_parse_block_sequence_entry(p, FALSE)
      [] p.State = "PARSE_INDENTLESS_SEQUENCE_ENTRY_STATE" -> yaml_parser_parse_indentless_sequence_entry(p)
      [] p.State = "PARSE_BLOCK_MAPPING_FIRST_KEY_STATE" -> yaml_parser_parse_block_mapping_key(p, TRUE)
      [] p.State = "PARSE_BLOCK_MAPPING_KEY_STATE" -> yaml_parser_parse_block_mapping_key(p, FALSE)
      [] p.State = "PARSE_BLOCK_MAPPING_VALUE_STATE" -> yaml_parser_parse_block_mapping_value(p)
      [] p.State = "PARSE_FLOW_SEQUENCE_FIRST_ENTRY_STATE" -> yaml_parser_parse_flow_sequence_entry(p, TRUE)
      [] p.State = "PARSE_FLOW_SEQUENCE_ENTRY_STATE" -> yaml_parser_parse_flow_sequence_entry(p, FALSE)
      [] p.State = "PARSE_FLOW_SEQUENCE_ENTRY_MAPPING_KEY_STATE" -> yaml_parser_parse_flow_sequence_entry_mapping_key(p)
      [] p.State = "PARSE_FLOW_SEQUENCE_ENTRY_MAPPING_VALUE_STATE" -> yaml_parser_parse_flow_sequence_entry_mapping_value(p)
      [] p.State = "PARSE_FLOW_SEQUENCE_ENTRY_MAPPING_END_STATE" -> yaml_parser_parse_flow_sequence_entry_mapping_end(p)
      [] p.State = "PARSE_FLOW_MAPPING_FIRST_KEY_STATE" -> yaml_parser_parse_flow_mapping_key(p, TRUE)
      [] p.State = "PARSE_FLOW_MAPPING_KEY_STATE" -> yaml_parser_parse_flow_mapping_key(p, FALSE)
      [] p.State = "PARSE_FLOW_MAPPING_VALUE_STATE" -> yaml_parser_parse_flow_mapping_value(p, FALSE)
      [] p.State = "PARSE_FLOW_MAPPING_EMPTY_VALUE_STATE" -> yaml_parser_parse_flow_mapping_value(p, TRUE)
      [] OTHER -> GoPanic(p, "invalid parser state")

\* Parse that runs the state machine whatever the parser has produced.
Parse_without_end_check(p) == yaml_parser_state_machine(p)

\* Parse - Get the next event: the empty event after the end of the stream.
Parse(p) ==
    IF p.Stream_end_produced \/ p.State = "PARSE_END_STATE"
    THEN [kind |-> "empty", p |-> p, event |-> NoEvent, problem |-> ""]
    ELSE yaml_parser_state_machine(p)

\* ---------------------------------------------------------------------------
\* The event grammar
\*   STREAM-START (DOCUMENT-START node DOCUMENT-END)* STREAM-END
\* followed as the events are returned.  open is the stack of the open
\* collections, odd tells whether an open mapping holds an odd number of nodes.

GramInit == [phase |-> "init", open |-> <<>>, pairs |-> TRUE]

GramNode(g) ==
    IF g.open = <<>> THEN [g EXCEPT !.phase = "docdone"]
    ELSE [g EXCEPT !.open[Len(g.open)].odd = ~@]

GramStep(g, e) ==
    LET bad == [g EXCEPT !.phase = "bad"]
        top == g.open[Len(g.open)]
        close(kind) ==
            IF g.open = <<>> \/ top.kind # kind THEN bad
            ELSE GramNode([g EXCEPT !.open = SubSeq(@, 1, Len(@) - 1),
                                    !.pairs = @ /\ (kind = "map" => ~top.odd)])
    IN
    CASE g.phase = "init" ->
            IF e.Type = "STREAM_START" THEN [g EXCEPT !.phase = "stream"] ELSE bad
      [] g.phase = "stream" ->
            IF e.Type = "DOCUMENT_START" THEN [g EXCEPT !.phase = "doc"]
            ELSE IF e.Type = "STREAM_END" THEN [g EXCEPT !.phase = "end"]
            ELSE bad
      [] g.phase = "doc" ->
            CASE e.Type \in {"SCALAR", "ALIAS"} -> GramNode(g)
              [] e.Type = "SEQUENCE_START" ->
                    [g EXCEPT !.open = Append(@, [kind |-> "seq", odd |-> FALSE])]
              [] e.Type = "MAPPING_START" ->
                    [g EXCEPT !.open = Append(@, [kind |-> "map", odd |-> FALSE])]
              [] e.Type = "SEQUENCE_END" -> close("seq")
              [] e.Type = "MAPPING_END" -> close("map")
              [] OTHER -> bad
      [] g.phase = "docdone" ->
            IF e.Type = "DOCUMENT_END" THEN [g EXCEPT !.phase = "stream"] ELSE bad
      [] OTHER -> bad

NilRef == [id |-> 0, Doc |-> 0]

NoNode ==
    [Kind |-> "", id |-> 0, Anchor |-> "", Alias |-> NilRef, Len |-> 0, Doc |-> 0,
     Bound |-> 0]

StreamInit == [events |-> 0, docs |-> 0, anchored |-> [a \in AnchorNames |-> 0]]

\* An event that binds an anchor name to the node it starts.
Anchoring(e) ==
    e.Type \in {"SCALAR", "SEQUENCE_START", "MAPPING_START"} /\ e.Anchor # ""

\* The event stream after event e.  The anchoring events are numbered as they
\* are returned; anchored[a] is the number of the latest one that bound a.
StreamStep(st, e) ==
    [events |-> IF Anchoring(e) THEN st.events + 1 ELSE st.events,
     docs |-> IF e.Type = "DOCUMENT_START" THEN st.docs + 1 ELSE st.docs,
     anchored |-> IF Anchoring(e)
                  THEN [st.anchored EXCEPT ![e.Anchor] = st.events + 1]
                  ELSE st.anchored]

\* ---------------------------------------------------------------------------
\* The tree-builder (decode.go, type parser).  Its recursive functions are
\* kept as a stack of frames; a frame is the function a parse() call turned
\* into and where it stands.  An anchored node is known by the number of the
\* anchoring event that made it (other nodes need no identity and have id 0);
\* Doc is the number of the document the event belongs to.

Ref(n) == [id |-> n.id, Doc |-> n.Doc]

NoBuilderEvent ==
    [Type |-> "NO_EVENT", Anchor |-> "", Tag |-> "", Style |-> "", no |-> 0, bound |-> 0]

\* The event as the builder holds it.  no: its number if it is an anchoring
\* event; bound: for an alias event, the number of the latest anchoring event
\* of that name before it (0 if there is none).
BuilderEvent(e, st) ==
    [Type |-> e.Type, Anchor |-> e.Anchor, Tag |-> e.Tag, Style |-> e.Style,
     no |-> IF Anchoring(e) THEN st.events + 1 ELSE 0,
     bound |-> IF e.Type = "ALIAS" THEN st.anchored[e.Anchor] ELSE 0]

BuilderInit ==
    [event    |-> NoBuilderEvent,
     doneInit |-> FALSE,
     anchors  |-> [a \in AnchorNames |-> NilRef],
     frames   |-> <<>>,
     aliases  |-> <<>>,     \* the Alias nodes made so far
     built    |-> NoNode]   \* the collection node completed last

Frame(fn, pc, n) == [fn |-> fn, pc |-> pc, node |-> n]

Out(b, kind, n, msg) == [b |-> b, kind |-> kind, node |-> n, problem |-> msg]

\* An error return unwinds every function of the call.
BuilderFail(b, msg) == Out([b EXCEPT !.frames = <<>>], "error", NoNode, msg)
BuilderPanic(b, msg) == Out([b EXCEPT !.frames = <<>>], "panic", NoNode, msg)

\* parser.node
node(kind, e, docs) ==
    [Kind |-> kind, id |-> e.no, Anchor |-> "", Alias |-> NilRef, Len |-> 0, Doc |-> docs,
     Bound |-> e.bound]

\* An anchor registry that keeps the first node bound to a name.
anchor_keeps_first(b, n, name) ==
    IF name # "" /\ b.anchors[name] = NilRef
    THEN [b EXCEPT !.anchors[name] = Ref(n)] ELSE b

\* parser.anchor: p.anchors[n.Anchor] = n
anchor(b, n, name) ==
    IF name # "" THEN [b EXCEPT !.anchors[name] = Ref(n)] ELSE b

anchored(n, name) == IF name # "" THEN [n EXCEPT !.Anchor = name] ELSE n

consume(b) == [b EXCEPT !.event = NoBuilderEvent]

top(b) == b.frames[Len(b.frames)]

pop_frame(b) == [b EXCEPT !.frames = SubSeq(@, 1, Len(@) - 1)]

set_top(b, f) == [b EXCEPT !.frames[Len(b.frames)] = f]

push_parse(b) == [b EXCEPT !.frames = Append(@, Frame("parse", "", NoNode))]

\* parser.expect on an event that is at hand.
expect(b, type) ==
    IF b.event.Type = "STREAM_END"
    THEN BuilderFail(b, "attempted to go past the end of stream; corrupted value?")
    ELSE IF b.event.Type # type
    THEN BuilderFail(b, "expected event but got another")
    ELSE Out(consume(b), "ok", NoNode, "")

RECURSIVE run(_, _, _)

\* The function on top of the stack returns n (NoNode for nil) to its caller.
return(b, n, docs) ==
    LET b0 == pop_frame(IF n.Kind \in {"Sequence", "Mapping", "Document"}
                        THEN [b EXCEPT !.built = n] ELSE b)
        f  == top(b0)
        grown == [f EXCEPT !.node.Len = @ + 1]
    IN
    IF b0.frames = <<>> THEN Out(b0, IF n = NoNode THEN "nil" ELSE "value", n, "")
    ELSE CASE f.fn = "document" ->
                run(set_top(b0, [grown EXCEPT !.pc = "end"]), FALSE, docs)
           [] f.fn = "sequence" ->
                \* a nil child is appended and the loop peeks the same event again
                IF n = NoNode THEN BuilderPanic(b0, "sequence never ends")
                ELSE run(set_top(b0, grown), FALSE, docs)
           [] f.fn = "mapping" /\ f.pc = "key" ->
                IF n = NoNode THEN BuilderPanic(b0, "nil pointer dereference")
                ELSE run(push_parse(set_top(b0, [grown EXCEPT !.pc = "value"])), FALSE, docs)
           [] f.fn = "mapping" /\ f.pc = "value" ->
                IF n = NoNode THEN BuilderPanic(b0, "nil pointer dereference")
                ELSE run(set_top(b0, [grown EXCEPT !.pc = "tail"]), FALSE, docs)
           [] OTHER -> BuilderPanic(b0, "unreachable")

\* An end of stream that is taken off the parser.
parse_stream_end_consumed(b, docs) == return(consume(b), NoNode, docs)

\* parser.parse, case yaml_STREAM_END_EVENT: nil is returned and the event is
\* left where it is.
parse_stream_end(b, docs) == return(b, NoNode, docs)

\* An alias function that does not look whether the name is bound.
parser_alias_unchecked(b, docs) ==
    LET n == [node("Alias", b.event, docs) EXCEPT !.Alias = b.anchors[b.event.Anchor]]
        ex == expect(b, "ALIAS")
    IN  IF ex.kind # "ok" THEN ex
        ELSE return([ex.b EXCEPT !.aliases = Append(@, n)], n, docs)

\* parser.alias: the node of an alias event; its target is looked up in
\* p.anchors when the event is met.
parser_alias(b, docs) ==
    LET n == [node("Alias", b.event, docs) EXCEPT !.Alias = b.anchors[b.event.Anchor]]
    IN  IF n.Alias = NilRef
        THEN BuilderFail(b, "yaml: unknown anchor '" \o b.event.Anchor \o "' referenced")
        ELSE LET ex == expect(b, "ALIAS") IN
             IF ex.kind # "ok" THEN ex
             ELSE return([ex.b EXCEPT !.aliases = Append(@, n)], n, docs)

\* parser.parse after peek returned the event e.
parse_dispatch(b, docs) ==
    LET e == b.event IN
    CASE e.Type = "SCALAR" ->
            LET n == anchored(node("Scalar", e, docs), e.Anchor)
            IN  (LET ex == expect(anchor(b, n, e.Anchor), "SCALAR") IN
                IF ex.kind # "ok" THEN ex ELSE LET b1 == ex.b IN return(b1, n, docs))
      [] e.Type = "ALIAS" -> parser_alias(b, docs)
      [] e.Type = "MAPPING_START" ->
            LET n == anchored(node("Mapping", e, docs), e.Anchor)
            IN  (LET ex == expect(anchor(b, n, e.Anchor), "MAPPING_START") IN
                IF ex.kind # "ok" THEN ex ELSE LET b1 == ex.b IN
                    run(set_top(b1, Frame("mapping", "key", n)), FALSE, docs))
      [] e.Type = "SEQUENCE_START" ->
            LET n == anchored(node("Sequence", e, docs), e.Anchor)
            IN  (LET ex == expect(anchor(b, n, e.Anchor), "SEQUENCE_START") IN
                IF ex.kind # "ok" THEN ex ELSE LET b1 == ex.b IN
                    run(set_top(b1, Frame("sequence", "loop", n)), FALSE, docs))
      [] e.Type = "DOCUMENT_START" ->
            LET n == node("Document", e, docs)
            IN  (LET ex == expect(b, "DOCUMENT_START") IN
                IF ex.kind # "ok" THEN ex ELSE LET b1 == ex.b IN
                    run(push_parse(set_top(b1, Frame("document", "child", n))), FALSE, docs))
      [] e.Type = "STREAM_END" -> parse_stream_end(b, docs)
      [] e.Type = "TAIL_COMMENT" ->
            BuilderPanic(b, "internal error: unexpected tail comment event")
      [] OTHER -> BuilderPanic(b, "internal error: attempted to parse unknown event")

\* Run the builder until it needs an event it does not have (peek or expect
\* call Parse), or until the call that was made from outside returns.  fresh:
\* Parse has just answered, so a typeless event is an answer too.
run(b, fresh, docs) ==
    LET f == top(b) IN
    IF b.event.Type = "NO_EVENT" /\ ~fresh THEN Out(b, "wait", NoNode, "")
    ELSE CASE f.fn = "parse" ->
                IF ~b.doneInit
                THEN (LET ex == expect(b, "STREAM_START") IN
                IF ex.kind # "ok" THEN ex ELSE LET b1 == ex.b IN
                         run([b1 EXCEPT !.doneInit = TRUE], FALSE, docs))
                ELSE parse_dispatch(b, docs)
           [] f.fn = "document" ->
                (LET ex == expect(b, "DOCUMENT_END") IN
                IF ex.kind # "ok" THEN ex ELSE LET b1 == ex.b IN return(b1, f.node, docs))
           [] f.fn = "sequence" ->
                IF b.event.Type = "SEQUENCE_END"
                THEN (LET ex == expect(b, "SEQUENCE_END") IN
                IF ex.kind # "ok" THEN ex ELSE LET b1 == ex.b IN return(b1, f.node, docs))
                ELSE run(push_parse(b), fresh, docs)
           [] f.fn = "mapping" /\ f.pc = "key" ->
                IF b.event.Type = "MAPPING_END"
                THEN (LET ex == expect(b, "MAPPING_END") IN
                IF ex.kind # "ok" THEN ex ELSE LET b1 == ex.b IN return(b1, f.node, docs))
                ELSE run(push_parse(b), fresh, docs)
           [] f.fn = "mapping" /\ f.pc = "tail" ->
                IF b.event.Type = "TAIL_COMMENT"
                THEN (LET ex == expect(b, "TAIL_COMMENT") IN
                IF ex.kind # "ok" THEN ex ELSE LET b1 == ex.b IN
                         run(set_top(b1, [f EXCEPT !.pc = "key"]), FALSE, docs))
                ELSE run(set_top(b, [f EXCEPT !.pc = "key"]), fresh, docs)
           [] OTHER -> BuilderPanic(b, "unreachable")

\* ---------------------------------------------------------------------------
\* The decoder (decode.go, type decoder) materializes a node tree.  The trees
\* are the documents below; a node is known by where it stands in its document.

Id(t, k, i) == [t |-> t, k |-> k, i |-> i]

DocId == Id("doc", 0, 0)

Nd(kind, content, alias, fault) ==
    [Kind |-> kind, Content |-> content, Alias |-> alias, Fault |-> fault]

\* The keys and values of a mapping whose k-th value is the node level k.
Entries(n) ==
    [j \in 1..(2 * n) |->
        IF j % 2 = 1 THEN Id("key", (j - 1) \div 2, 0) ELSE Id("level", (j - 2) \div 2, 0)]

\* a: &a [00, .. ]   b: &b [*a, .. ]   c: &c [*b, .. ]   ...
\* as in unmarshalErrorTests: level 0 holds Fanout scalars, level k holds
\* Fanout aliases of level k - 1.
Laughs(id) ==
    CASE id.t = "doc"   -> Nd("Document", <<Id("root", 0, 0)>>, DocId, "")
      [] id.t = "root"  -> Nd("Mapping", Entries(Levels + 1), DocId, "")
      [] id.t = "key"   -> Nd("Scalar", <<>>, DocId, "")
      [] id.t = "level" ->
            Nd("Sequence", [i \in 1..Fanout |-> Id("item", id.k, i)], DocId, "")
      [] OTHER ->
            IF id.k = 0 THEN Nd("Scalar", <<>>, DocId, "")
            ELSE Nd("Alias", <<>>, Id("level", id.k - 1, 0), "")

\* a: &a
\*   b: *a
SelfContaining(id) ==
    CASE id.t = "doc"   -> Nd("Document", <<Id("root", 0, 0)>>, DocId, "")
      [] id.t = "root"  -> Nd("Mapping", Entries(1), DocId, "")
      [] id.t = "key"   -> Nd("Scalar", <<>>, DocId, "")
      [] id.t = "level" -> Nd("Mapping", <<Id("key", 1, 0), Id("item", 0, 1)>>, DocId, "")
      [] OTHER          -> Nd("Alias", <<>>, Id("level", 0, 0), "")

\* a: [1, x, !!binary "?"]   b: [!!binary "?"]
\* x does not fit the type it is decoded into; "?" is no base64 data.
Faulty(id) ==
    CASE id.t = "doc"   -> Nd("Document", <<Id("root", 0, 0)>>, DocId, "")
      [] id.t = "root"  -> Nd("Mapping", Entries(2), DocId, "")
      [] id.t = "key"   -> Nd("Scalar", <<>>, DocId, "")
      [] id.t = "level" ->
            IF id.k = 0
            THEN Nd("Sequence", [i \in 1..3 |-> Id("item", 0, i)], DocId, "")
            ELSE Nd("Sequence", <<Id("item", 1, 1)>>, DocId, "")
      [] OTHER ->
            Nd("Scalar", <<>>, DocId,
               IF id.k = 0 /\ id.i = 1 THEN ""
               ELSE IF id.k = 0 /\ id.i = 2 THEN "type" ELSE "binary")

Documents == {"laughs", "self", "faulty"}

NodeOf(doc, id) ==
    CASE doc = "laughs" -> Laughs(id)
      [] doc = "self"   -> SelfContaining(id)
      [] OTHER          -> Faulty(id)

\* The places of a document whose value may be of a type with the legacy
\* UnmarshalYAML(func(interface{}) error) method; the method hands back what
\* its callback returned, as obsoleteUnmarshalerType of decode_test.go does.
\* DocId stands for the value given to the decoder.
LegacySites(doc) ==
    {DocId} \cup
    (IF doc = "laughs" THEN {Id("level", Levels, 0)}
     ELSE IF doc = "self" THEN {Id("level", 0, 0)}
     ELSE {Id("level", 0, 0), Id("level", 1, 0)})

NoErr == [msg |-> "", step |-> 0]

NoCall == [node |-> DocId, legacy |-> FALSE, pending |-> FALSE]

Call(id, legacy) == [node |-> id, legacy |-> legacy, pending |-> TRUE]

newDecoder ==
    [doc |-> "", legacy |-> {}, call |-> NoCall, stack |-> <<>>,
     aliases |-> {}, typeErrors |-> 0,
     decodeCount |-> 0, aliasCount |-> 0, aliasDepth |-> 0,
     status |-> "idle", good |-> FALSE, err |-> NoErr,
     first |-> NoErr,        \* the first error that is no type error
     tripped |-> FALSE]      \* the aliasing budget was found exceeded

alias_ratio_range_low == 400000

alias_ratio_range_high == 4000000

alias_ratio_range == alias_ratio_range_high - alias_ratio_range_low

\* float64(aliasCount)/float64(decodeCount) > allowedAliasRatio(decodeCount),
\* in whole numbers: the ratios are 99/100, 10/100, and between the two
\* 99/100 - (89/100) * (decodeCount - low) / range.
exceeds_allowedAliasRatio(aliasCount, decodeCount) ==
    IF decodeCount <= alias_ratio_range_low
    THEN 100 * aliasCount > 99 * decodeCount
    ELSE IF decodeCount >= alias_ratio_range_high
    THEN 100 * aliasCount > 10 * decodeCount
    ELSE 100 * aliasCount * alias_ratio_range >
             decodeCount * (99 * alias_ratio_range
                            - 89 * (decodeCount - alias_ratio_range_low))

DFrame(fn, id, i, terrlen) == [fn |-> fn, node |-> id, i |-> i, terrlen |-> terrlen]

dtop(d) == d.stack[Len(d.stack)]

dpop(d) == [d EXCEPT !.stack = SubSeq(@, 1, Len(@) - 1)]

\* The call of d.unmarshal for the i-th child of the collection on top.
child_call(d, i) ==
    LET f == dtop(d)
        c == NodeOf(d.doc, f.node).Content[i]
    IN  [d EXCEPT !.stack[Len(d.stack)].i = i, !.call = Call(c, c \in d.legacy)]

RECURSIVE returned(_, _)

\* A d.unmarshal call returns (good, nil) to the function on top of the stack.
returned(d, good) ==
    IF d.stack = <<>>
    THEN [d EXCEPT !.status = "done", !.good = good, !.call = NoCall]
    ELSE LET f == dtop(d)
             l == Len(NodeOf(d.doc, f.node).Content)
         IN
         CASE f.fn = "document" -> returned(dpop(d), good)
           [] f.fn = "alias" ->
                returned([dpop(d) EXCEPT !.aliasDepth = @ - 1,
                                         !.aliases = @ \ {f.node}], good)
           [] f.fn = "sequence" ->
                IF f.i < l THEN child_call(d, f.i + 1)
                ELSE returned(dpop(d), TRUE)
           [] f.fn = "mapping" ->
                \* a key that did not unmarshal leaves its value out
                LET next == IF f.i % 2 = 1 /\ ~good THEN f.i + 2 ELSE f.i + 1
                IN  IF next <= l THEN child_call(d, next)
                    ELSE returned(dpop(d), TRUE)
           [] OTHER ->
                \* callObsoleteUnmarshaler: the callback has returned nil or
                \* the type errors of its call, and the method hands that back
                IF d.typeErrors > f.terrlen
                THEN returned(dpop(d), FALSE)
                ELSE returned(dpop(d), TRUE)

RECURSIVE failed(_, _)

\* A d.unmarshal call returns the error e: every function hands it on to its
\* caller ("if err != nil { return false, err }"), up to the callback of
\* callObsoleteUnmarshaler, which returns its own named result err, nil
\* ("if uErr != nil { return err }").
failed(d, e) ==
    IF d.stack = <<>>
    THEN [d EXCEPT !.status = "done", !.good = FALSE, !.err = e, !.call = NoCall]
    ELSE IF dtop(d).fn = "legacy"
    THEN returned(dpop(d), TRUE)
    ELSE failed(dpop(d), e)

raise(d, msg) ==
    LET e == [msg |-> msg, step |-> d.decodeCount]
    IN  failed([d EXCEPT !.first = IF @ = NoErr THEN e ELSE @], e)

\* decoder.alias
alias(d, id, legacy) ==
    IF id \in d.aliases THEN raise(d, "yaml: anchor '%s' value contains itself")
    ELSE [d EXCEPT !.aliases = @ \cup {id},
                   !.aliasDepth = @ + 1,
                   !.stack = Append(@, DFrame("alias", id, 0, 0)),
                   !.call = Call(NodeOf(d.doc, id).Alias, legacy)]

\* decoder.document
document(d, id, legacy) ==
    LET n == NodeOf(d.doc, id) IN
    IF Len(n.Content) = 1
    THEN [d EXCEPT !.stack = Append(@, DFrame("document", id, 0, 0)),
                   !.call = Call(n.Content[1], legacy)]
    ELSE returned(d, FALSE)

\* decoder.scalar
scalar(d, id) ==
    LET n == NodeOf(d.doc, id) IN
    IF n.Fault = "binary"
    THEN raise(d, "yaml: !!binary value contains invalid base64 data")
    ELSE IF n.Fault = "type"
    THEN returned([d EXCEPT !.typeErrors = @ + 1], FALSE)
    ELSE returned(d, TRUE)

\* decoder.sequence and decoder.mapping, into a slice or a map
collection(d, fn, id) ==
    LET d1 == [d EXCEPT !.stack = Append(@, DFrame(fn, id, 0, 0))]
    IN  IF NodeOf(d.doc, id).Content = <<>> THEN returned(dpop(d1), TRUE)
        ELSE child_call(d1, 1)

\* decoder.unmarshal, for the call that is pending
unmarshal_call(d) ==
    LET id == d.call.node
        n  == NodeOf(d.doc, id)
        d1 == [d EXCEPT !.decodeCount = @ + 1,
                        !.aliasCount = IF d.aliasDepth > 0 THEN @ + 1 ELSE @]
    IN
    IF d1.aliasCount > 100 /\ d1.decodeCount > 1000
       /\ exceeds_allowedAliasRatio(d1.aliasCount, d1.decodeCount)
    THEN raise([d1 EXCEPT !.tripped = TRUE], "yaml: document contains excessive aliasing")
    ELSE CASE n.Kind = "Document" -> document(d1, id, d.call.legacy)
           [] n.Kind = "Alias" -> alias(d1, id, d.call.legacy)
           [] d.call.legacy ->
                \* decoder.prepare finds an obsoleteUnmarshaler, and its
                \* callback unmarshals the same node into a value of the
                \* method's choosing
                [d1 EXCEPT !.stack = Append(@, DFrame("legacy", id, 0, d1.typeErrors)),
                           !.call = Call(id, FALSE)]
           [] n.Kind = "Scalar" -> scalar(d1, id)
           [] n.Kind = "Mapping" -> collection(d1, "mapping", id)
           [] OTHER -> collection(d1, "sequence", id)

\* ---------------------------------------------------------------------------
\* The tag caches of internal/resolve: the package variables shortTags and
\* longTags, filled as tags are first seen.  The tree-builders, decoders and
\* encoders that run in parallel are the instances; each makes its calls one
\* after the other.  A tag is its form and its name: the long form stands
\* for "tag:yaml.org,2002:" + name, the short form for "!!" + name.

Tag(form, name) == [form |-> form, name |-> name]

Tags == { Tag(form, name) : form \in {"long", "short", "local"}, name \in {"int", "str"} }

Caches == {"shortTags", "longTags"}

Idle == [pc |-> "idle", cache |-> "", tag |-> Tag("", "")]

ResolveInit ==
    [shortTags |-> {}, longTags |-> {},        \* the maps, as sets of <<key, value>>
     inst    |-> [i \in 1..Instances |-> Idle],
     ret     |-> [i \in 1..Instances |-> Tag("", "")],
     read    |-> [c \in Caches |-> {}],        \* the instances that have read the map
     wrote   |-> [c \in Caches |-> {}],        \* the instances that have written it
     fatal   |-> FALSE]                        \* the runtime has stopped the program

\* Another instance is in the middle of an assignment to the map.
Racing(r, i, cache) ==
    \E j \in 1..Instances : j # i /\ r.inst[j].pc = "storing" /\ r.inst[j].cache = cache

HasKey(m, k) == \E kv \in m : kv[1] = k

ValueOf(m, k) == (CHOOSE kv \in m : kv[1] = k)[2]

\* What a call may come to: r itself, or, when its access to the map overlaps
\* an assignment by another instance, the runtime's fatal error as well (an
\* unsynchronized access has no defined outcome).
Outcomes(r, i, cache, next) ==
    {next} \cup (IF Racing(r, i, cache) THEN {[r EXCEPT !.fatal = TRUE]} ELSE {})

\* The lookup of a call: ShortTag of a long tag, LongTag of a short one.  A
\* tag of another form is returned as it is, with no access to the map.
lookup(r, i, cache, tag, form) ==
    IF tag.form # form THEN {[r EXCEPT !.ret[i] = tag]}
    ELSE LET r1 == [r EXCEPT !.read[cache] = @ \cup {i}]
         IN  Outcomes(r, i, cache,
                 IF HasKey(r[cache], tag)
                 THEN [r1 EXCEPT !.ret[i] = ValueOf(r[cache], tag)]
                 ELSE [r1 EXCEPT !.inst[i] = [pc |-> "store", cache |-> cache, tag |-> tag]])

\* func ShortTag(tag string) string
ShortTag(r, i, tag) == lookup(r, i, "shortTags", tag, "long")

\* func LongTag(tag string) string
LongTag(r, i, tag) == lookup(r, i, "longTags", tag, "short")

\* The value the miss of a lookup puts into the map.
Converted(cache, tag) ==
    Tag(IF cache = "shortTags" THEN "short" ELSE "long", tag.name)

\* ---------------------------------------------------------------------------
\* The decoder's mappings (decode.go, decoder.mapping and decoder.merge).  A
\* mapping node holds its entries in source order; the value of an explicit
\* entry is a scalar known by the mapping it stands in and its line, the value
\* of a "<<" entry is the merge source.  The target is a Go map.

\* The key scalars: a string, and two spellings of the integer one.
MKeys == {"a", "1", "0x1"}

\* Most explicit entries of a mapping.
MaxEntries == 2

ScalarNode(at, line) == [Kind |-> "Scalar", at |-> at, Line |-> line]

Entry(key, line, val) == [Value |-> key, Line |-> line, val |-> val]

MappingNode(at, entries) == [Kind |-> "Mapping", at |-> at, Content |-> entries]

AliasNode(n) == [Kind |-> "Alias", Alias |-> n]

SequenceNode(items) == [Kind |-> "Sequence", Content |-> items]

KeySeqs == UNION { [1..n -> MKeys] : n \in 0..MaxEntries }

\* The entries of the keys ks, one per line, with a "<<" entry of value v
\* on line pos (pos = 0: no such entry).
Entries2(at, ks, pos, v) ==
    [i \in 1..(Len(ks) + (IF pos = 0 THEN 0 ELSE 1)) |->
        IF pos = 0 \/ i < pos THEN Entry(ks[i], i, ScalarNode(at, i))
        ELSE IF i = pos THEN Entry("<<", i, v)
        ELSE Entry(ks[i - 1], i, ScalarNode(at, i))]

PlainMappings(at) ==
    { MappingNode(at, Entries2(at, ks, 0, ScalarNode(at, 0))) : ks \in KeySeqs \ {<<>>} }

\* Merge sources: mappings, some with a merge key of their own.
SourceMappings(at) ==
    PlainMappings(at) \cup
    { MappingNode(at, Entries2(at, ks, 2, MappingNode("N", Entries2("N", ns, 0, ScalarNode("N", 0))))) :
        ks \in [1..1 -> MKeys], ns \in [1..1 -> MKeys] }

\* The values a "<<" entry is given.
MergeValues(at) ==
    SourceMappings(at)
    \cup { AliasNode(s) : s \in PlainMappings(at) }
    \cup { SequenceNode(<<s1, s2>>) : s1 \in SourceMappings(at), s2 \in PlainMappings("S2") }
    \cup { SequenceNode(<<AliasNode(s1), ScalarNode("S2", 0)>>) : s1 \in PlainMappings(at) }
    \cup { ScalarNode(at, 0), AliasNode(ScalarNode(at, 0)) }

\* The mappings that are decoded.
ParentMappings(at) ==
    { MappingNode(at, Entries2(at, ks, 0, ScalarNode(at, 0))) : ks \in KeySeqs }
    \cup UNION { { MappingNode(at, Entries2(at, ks, pos, v)) :
                     pos \in 1..(Len(ks) + 1), v \in MergeValues("S1") } :
                 ks \in KeySeqs }

\* The value a key scalar resolves to (resolve.Resolve): its Go type and its
\* canonical text.
ResolvedKey(value) ==
    IF value \in {"1", "0x1"} THEN [t |-> "int", v |-> "1"] ELSE [t |-> "string", v |-> value]

\* decoder.scalar for a key: a string-kinded target takes n.Value as it is
\* written, an interface{} target takes the resolved value.
scalar_key(value, kt) ==
    IF kt = "string" THEN [t |-> "string", v |-> value] ELSE ResolvedKey(value)

isMerge(e) == e.Value = "<<"

\* isStringMap: every key is tagged !!str or !!merge.
isStringMap(n) ==
    \A i \in 1..Len(n.Content) :
        isMerge(n.Content[i]) \/ ResolvedKey(n.Content[i].Value).t = "string"

NilFields == [nil |-> TRUE, keys |-> {}]

\* newDecoder, as far as mappings go.
MapDecoder == [typeErrors |-> <<>>, mergedFields |-> NilFields]

\* A return of d.unmarshal: the decoder, the target, and (good, err).
MRet(d, out, good, err) == [d |-> d, out |-> out, good |-> good, err |-> err]

\* out.SetMapIndex(k, e)
SetMapIndex(out, k, e) ==
    [out EXCEPT !.m = { x \in @ : x.k # k } \cup {[k |-> k, from |-> e]}]

\* decoder.mapping, the uniqueKeys loops: a type error for every pair of keys
\* of the same kind and the same text.
duplicate_errors(n) ==
    LET l == Len(n.Content)
        pairs == { p \in (1..l) \X (1..l) :
                      p[1] < p[2] /\ n.Content[p[1]].Value = n.Content[p[2]].Value }
        \* the pairs in the order the loops meet them
        RECURSIVE ordered(_, _)
        ordered(i, j) ==
            IF i > l THEN <<>>
            ELSE IF j > l THEN ordered(i + 1, i + 2)
            ELSE (IF <<i, j>> \in pairs
                  THEN <<[line |-> n.Content[j].Line, key |-> n.Content[j].Value,
                          first |-> n.Content[i].Line]>>
                  ELSE <<>>) \o ordered(i, j + 1)
    IN  ordered(1, 2)

RECURSIVE map_unmarshal(_, _, _)
RECURSIVE merge_sequence(_, _, _, _)

\* decoder.merge
merge(d, parent, mergeNode, out) ==
    LET mergedFields == d.mergedFields
        d1 == IF mergedFields.nil
              THEN [d EXCEPT !.mergedFields =
                       [nil |-> FALSE,
                        keys |-> { scalar_key(parent.Content[i].Value, "iface") :
                                      i \in 1..Len(parent.Content) }]]
              ELSE d
        wantMapErr == "yaml: map merge requires map or sequence of maps as the value"
        r == CASE mergeNode.Kind = "Mapping" -> map_unmarshal(d1, mergeNode, out)
               [] mergeNode.Kind = "Alias" ->
                     IF mergeNode.Alias.Kind # "Mapping"
                     THEN MRet(d1, out, FALSE, wantMapErr)
                     ELSE map_unmarshal(d1, mergeNode, out)
               [] mergeNode.Kind = "Sequence" -> merge_sequence(d1, mergeNode, 1, out)
               [] OTHER -> MRet(d1, out, FALSE, wantMapErr)
    IN  IF r.err # "" THEN r
        \* d.mergedFields = mergedFields: nil again, or the same map, which
        \* holds what the sources have added
        ELSE MRet(IF mergedFields.nil THEN [r.d EXCEPT !.mergedFields = NilFields] ELSE r.d,
                  r.out, TRUE, "")

\* decoder.merge, case SequenceNode, from item i on.
merge_sequence(d, mergeNode, i, out) ==
    IF i > Len(mergeNode.Content) THEN MRet(d, out, TRUE, "")
    ELSE LET ni == mergeNode.Content[i]
             wrong == IF ni.Kind = "Alias" THEN ni.Alias.Kind # "Mapping"
                      ELSE ni.Kind # "Mapping"
         IN  IF wrong
             THEN MRet(d, out, FALSE, "yaml: map merge requires map or sequence of maps as the value")
             ELSE LET r == map_unmarshal(d, ni, out)
                  IN  IF r.err # "" THEN r
                      ELSE merge_sequence(r.d, mergeNode, i + 1, r.out)

RECURSIVE mapping_loop(_, _, _, _, _, _)

\* decoder.mapping, the loop over the entries from entry i on and what follows
\* it; mergedFields is the function's local variable, mergeNode the "<<" value
\* met last (Kind "" for nil).
mapping_loop(d, n, i, out, mergedFields, mergeNode) ==
    IF i > Len(n.Content)
    THEN LET d1 == [d EXCEPT !.mergedFields = mergedFields]
         IN  IF mergeNode.Kind # ""
             THEN LET r == merge(d1, n, mergeNode, out)
                  IN  IF r.err # "" THEN MRet(r.d, r.out, FALSE, r.err) ELSE r
             ELSE MRet(d1, out, TRUE, "")
    ELSE LET e == n.Content[i]
             k == scalar_key(e.Value, out.kt)
         IN  IF isMerge(e) THEN mapping_loop(d, n, i + 1, out, mergedFields, e.val)
             ELSE IF ~mergedFields.nil /\ k \in mergedFields.keys
             THEN mapping_loop(d, n, i + 1, out, mergedFields, mergeNode)
             ELSE mapping_loop(d, n, i + 1,
                               SetMapIndex(out, k, [at |-> e.val.at, Line |-> e.val.Line]),
                               IF mergedFields.nil THEN mergedFields
                               ELSE [mergedFields EXCEPT !.keys = @ \cup {k}],
                               mergeNode)

\* decoder.mapping for a map target.
mapping(d, n, out) ==
    LET dups == duplicate_errors(n) IN
    IF dups # <<>>
    THEN MRet([d EXCEPT !.typeErrors = @ \o dups], out, FALSE, "")
    ELSE mapping_loop([d EXCEPT !.mergedFields = NilFields], n, 1,
                      [out EXCEPT !.nil = FALSE], d.mergedFields,
                      [Kind |-> ""])

\* decoder.unmarshal for the nodes of a mapping: an alias is decoded as its
\* target (decoder.alias), a mapping by decoder.mapping.
map_unmarshal(d, n, out) ==
    CASE n.Kind = "Alias" -> map_unmarshal(d, n.Alias, out)
      [] n.Kind = "Mapping" -> mapping(d, n, out)
      [] OTHER -> MRet(d, out, FALSE, "")

\* The targets: a map[string]string, and an interface{}, for which
\* decoder.mapping makes a map[string]interface{} when every key is a string
\* and a map[interface{}]interface{} otherwise.
MTargets == {"map[string]string", "interface{}"}

MakeMap(target, n) ==
    [kt |-> IF target = "map[string]string" \/ isStringMap(n) THEN "string" ELSE "iface",
     nil |-> TRUE, m |-> {}]

MapDecoderIdle ==
    [status |-> "idle", target |-> "", n |-> MappingNode("P", <<>>), d |-> MapDecoder,
     out |-> MakeMap("interface{}", MappingNode("P", <<>>)), good |-> FALSE, err |-> ""]

\* ---------------------------------------------------------------------------
\* parser.mapping (decode.go) and the foot comments of the events it is given.
\* The keys and values are scalars; each comment names the event it came
\* with: "# k1" the first key's, "# v2" the second value's, "# t1" the tail
\* comment event after the first pair, "# e" the MAPPING-END event's.

MaxPairs == 2

\* An event with its foot_comment.
CommentedEvent(type, style, foot_comment) ==
    [Type |-> type, Style |-> style, foot_comment |-> foot_comment]

Digits == <<"1", "2", "3">>

\* The events of the i-th pair of a mapping: the key, the value, and a
\* TAIL-COMMENT event if tail is set.
PairEvents(i, key_foot, value_foot, tail) ==
    <<CommentedEvent("SCALAR", "", IF key_foot THEN "# k" \o Digits[i] ELSE ""),
      CommentedEvent("SCALAR", "", IF value_foot THEN "# v" \o Digits[i] ELSE "")>>
    \o (IF tail THEN <<CommentedEvent("TAIL_COMMENT", "", "# t" \o Digits[i])>> ELSE <<>>)

RECURSIVE PairSeqs(_, _)

\* The event sequences of the pairs i to n.
PairSeqs(i, n) ==
    IF i > n THEN {<<>>}
    ELSE { PairEvents(i, kf, vf, t) \o rest :
           kf \in BOOLEAN, vf \in BOOLEAN, t \in BOOLEAN, rest \in PairSeqs(i + 1, n) }

\* The events of a mapping of n pairs.
CommentedMappings(n) ==
    { <<CommentedEvent("MAPPING_START", style, "")>> \o pairs
        \o <<CommentedEvent("MAPPING_END", "", end_foot)>> :
      style \in {"BLOCK_MAPPING_STYLE", "FLOW_MAPPING_STYLE"},
      pairs \in PairSeqs(1, n),
      end_foot \in {"", "# e"} }

\* parser.node with the event at hand, without position and tag.
commented_node(kind, event) ==
    [Kind |-> kind, Style |-> "", FootComment |-> event.foot_comment, Content |-> <<>>]

\* parser.mapping before it is called: the events to come, the node n, and
\* where the function stands.
CommentedIdle ==
    [events |-> <<>>, input |-> <<>>, pc |-> "idle",
     n |-> commented_node("MappingNode", CommentedEvent("", "", ""))]

\* parser.mapping up to its loop: the node is made of the MAPPING-START event
\* and the event is taken.
mapping_start(events) ==
    [events |-> Tail(events), input |-> events, pc |-> "loop",
     n |-> [commented_node("MappingNode", events[1]) EXCEPT
              !.Style = IF events[1].Style = "FLOW_MAPPING_STYLE" THEN "FlowStyle" ELSE ""]]

\* if block && k.FootComment != "" { ... }: the key's foot comment goes to
\* the value before it; content ends with the key.
foot_to_prior_value(content, block) ==
    LET k == content[Len(content)] IN
    IF block /\ k.FootComment # "" /\ Len(content) > 2
    THEN [content EXCEPT ![Len(content) - 2].FootComment = k.FootComment,
                         ![Len(content)].FootComment = ""]
    ELSE content

\* if k.FootComment == "" && v.FootComment != "" { ... }: content ends with
\* the key and the value.
foot_of_value_to_key(content) ==
    IF content[Len(content) - 1].FootComment = "" /\ content[Len(content)].FootComment # ""
    THEN [content EXCEPT ![Len(content) - 1].FootComment = content[Len(content)].FootComment,
                         ![Len(content)].FootComment = ""]
    ELSE content

\* if nextEvent == yaml_TAIL_COMMENT_EVENT { ... }
tail_comment_to_key(s) ==
    IF s.events[1].Type # "TAIL_COMMENT" THEN s
    ELSE [s EXCEPT !.events = Tail(@),
                   !.n.Content[Len(s.n.Content) - 1].FootComment =
                       IF @ = "" THEN s.events[1].foot_comment ELSE @]

\* parser.mapping, one turn of its loop: the key and the value are parsed
\* and appended and their foot comments moved.
mapping_pair(s) ==
    LET block == s.n.Style # "FlowStyle"
        with_key == foot_to_prior_value(
                        Append(s.n.Content, commented_node("ScalarNode", s.events[1])), block)
        with_value == foot_of_value_to_key(
                          Append(with_key, commented_node("ScalarNode", s.events[2])))
    IN  tail_comment_to_key([s EXCEPT !.events = Tail(Tail(@)), !.n.Content = with_value])

\* A mapping end that hands the foot comment to the last value.
mapping_end_to_value(s) ==
    LET foot == s.events[1].foot_comment IN
    IF s.n.Style # "FlowStyle" /\ foot # "" /\ Len(s.n.Content) > 1
    THEN [s EXCEPT !.events = Tail(@), !.pc = "returned",
                   !.n.Content[Len(s.n.Content)].FootComment = foot,
                   !.n.FootComment = ""]
    ELSE [s EXCEPT !.events = Tail(@), !.pc = "returned", !.n.FootComment = foot]

\* parser.mapping after its loop: the foot comment of the MAPPING-END event.
mapping_end(s) ==
    LET foot == s.events[1].foot_comment IN
    IF s.n.Style # "FlowStyle" /\ foot # "" /\ Len(s.n.Content) > 1
    THEN [s EXCEPT !.events = Tail(@), !.pc = "returned",
                   !.n.Content[Len(s.n.Content) - 1].FootComment = foot,
                   !.n.FootComment = ""]
    ELSE [s EXCEPT !.events = Tail(@), !.pc = "returned", !.n.FootComment = foot]

\* ---------------------------------------------------------------------------
\* The emitter (internal/emitter) and the Encoder that drives it.  The values
\* encoded are strings, maps and slices of plain Go types, and yaml.Node
\* values with anchors, aliases and block scalars: their events carry no tag,
\* no comment and no directive, the collections are in block style and not
\* empty, and the scalars are made of letters, spaces and line breaks and are
\* written in plain, literal or folded style.  What the writer was given is
\* kept as a sequence of chunks: a text and its width in columns.

\* An event as the Encoder makes it (apic.go); no is its number among the
\* events passed to Emit.
EmitterEvent(type, value, implicit) ==
    [Type |-> type, Value |-> value, Implicit |-> implicit, no |-> 0,
     Anchor |-> "", Style |-> "PLAIN_SCALAR_STYLE"]

streamStartEvent == EmitterEvent("STREAM_START", "", FALSE)
streamEndEvent == EmitterEvent("STREAM_END", "", FALSE)
documentStartEvent == EmitterEvent("DOCUMENT_START", "", TRUE)
documentEndEvent == EmitterEvent("DOCUMENT_END", "", TRUE)
scalarEvent(value) == EmitterEvent("SCALAR", value, TRUE)
sequenceStartEvent == EmitterEvent("SEQUENCE_START", "", TRUE)
sequenceEndEvent == EmitterEvent("SEQUENCE_END", "", FALSE)
mappingStartEvent == EmitterEvent("MAPPING_START", "", TRUE)
mappingEndEvent == EmitterEvent("MAPPING_END", "", FALSE)
aliasEvent(name) == [EmitterEvent("ALIAS", "", FALSE) EXCEPT !.Anchor = name]

\* The event with the anchor and the style a yaml.Node gives it.
of_node(event, name, style) == [event EXCEPT !.Anchor = name, !.Style = style]

\* The text of a scalar as runs of one character: "long" is a word of 90
\* letters, a space and a word of 5 letters.
ScalarRuns(value) ==
    CASE value = "long" -> <<[c |-> "w", n |-> 90], [c |-> " ", n |-> 1], [c |-> "w", n |-> 5]>>
      [] value = "" -> <<>>
      [] value = "\n" -> <<[c |-> "\n", n |-> 1]>>
      [] value = "\n\n" -> <<[c |-> "\n", n |-> 2]>>
      [] value = "a\n" -> <<[c |-> "a", n |-> 1], [c |-> "\n", n |-> 1]>>
      [] value = "a\n\n" -> <<[c |-> "a", n |-> 1], [c |-> "\n", n |-> 2]>>
      [] value = "a\nb" -> <<[c |-> "a", n |-> 1], [c |-> "\n", n |-> 1], [c |-> "b", n |-> 1]>>
      [] value = " a\n" -> <<[c |-> " ", n |-> 1], [c |-> "a", n |-> 1], [c |-> "\n", n |-> 1]>>
      [] OTHER -> <<[c |-> value, n |-> 1]>>

RECURSIVE analyze_runs(_, _, _)

\* analyzeScalar, the loop from run i on, for letters, spaces and line breaks.
analyze_runs(runs, i, sd) ==
    IF i > Len(runs) THEN sd
    ELSE LET at_end == i = Len(runs)
             prevSpace == i > 1 /\ runs[i - 1].c = " "
             prevBreak == i > 1 /\ runs[i - 1].c = "\n"
         IN  analyze_runs(runs, i + 1,
                CASE runs[i].c = " " ->
                        [sd EXCEPT !.blockPlainAllowed = @ /\ i > 1 /\ ~at_end /\ ~prevBreak,
                                   !.blockAllowed = @ /\ ~at_end]
                  [] runs[i].c = "\n" ->
                        [sd EXCEPT !.multiline = TRUE,
                                   !.blockPlainAllowed = FALSE,
                                   !.blockAllowed = @ /\ ~prevSpace]
                  [] OTHER -> sd)

analyzeScalar(value) ==
    IF ScalarRuns(value) = <<>>
    THEN [value |-> value, multiline |-> FALSE, blockPlainAllowed |-> TRUE,
          blockAllowed |-> FALSE, style |-> ""]
    ELSE analyze_runs(ScalarRuns(value), 1,
                      [value |-> value, multiline |-> FALSE, blockPlainAllowed |-> TRUE,
                       blockAllowed |-> TRUE, style |-> ""])

\* An emitter made with a preferred width of 80.
New_width_80 ==
    [indent |-> 4, width |-> 80,
     state |-> "emitStreamStartState", states |-> <<>>,
     eventsQueue |-> <<>>, eventsHead |-> 0,
     indentStack |-> <<>>, indentLevel |-> 0,
     rootContext |-> FALSE, simpleKeyContext |-> FALSE,
     column |-> 0, lastCharWhitepace |-> FALSE, lastCharIndent |-> FALSE,
     openEnded |-> FALSE, scalarData |-> analyzeScalar(""),
     anchorData |-> [Anchor |-> "", Alias |-> FALSE]]

\* emitter.New
New ==
    [indent |-> 4, width |-> -1,
     state |-> "emitStreamStartState", states |-> <<>>,
     eventsQueue |-> <<>>, eventsHead |-> 0,
     indentStack |-> <<>>, indentLevel |-> 0,
     rootContext |-> FALSE, simpleKeyContext |-> FALSE,
     column |-> 0, lastCharWhitepace |-> FALSE, lastCharIndent |-> FALSE,
     openEnded |-> FALSE, scalarData |-> analyzeScalar(""),
     anchorData |-> [Anchor |-> "", Alias |-> FALSE]]

\* The io.Writer: out is what it has taken; its failAt-th Write call from now
\* fails (0: none does).  indentAtWrite is the emitter's indent when the
\* writer was last written to, processed the numbers of the events handed to
\* the state machine, failed whether a Write call has failed in this call,
\* held the largest number of events an Emit call that returned nil has left
\* in the queue, blocks the literal and folded scalars written with the length
\* of the output before each.
NewWriter ==
    [out |-> <<>>, failAt |-> 0, indentAtWrite |-> 4, processed |-> <<>>, failed |-> FALSE,
     held |-> 0, blocks |-> {}]

WriterError == "some write error"

\* The emitter in the middle of a call: the Emitter, the writer, and the error
\* the call is returning ("" for nil).  Every function below returns at once
\* when it is entered with an error.
Ctx(e, w) == [e |-> e, w |-> w, err |-> ""]

DivideByZero == "panic: runtime error: integer divide by zero"

\* The element of a set of one element; in the({ f(x) : x \in {v} }) the
\* value v is the x of f(x).
the(S) == CHOOSE x \in S : TRUE

\* An assignment to fields of the Emitter.
set(c, e) == IF c.err # "" THEN c ELSE [c EXCEPT !.e = e]

\* e.writer.Write of a chunk s that is n columns wide.
Write(c, s, n) ==
    IF c.w.failAt = 1
    THEN [c |-> [c EXCEPT !.w.failAt = 0, !.w.failed = TRUE], err |-> WriterError]
    ELSE [c |-> [c EXCEPT !.w.out = Append(@, [s |-> s, n |-> n]),
                          !.w.failAt = IF @ > 0 THEN @ - 1 ELSE 0,
                          !.w.indentAtWrite = c.e.indent],
          err |-> ""]

\* A put that hands the writer's error on as it is.
put_unwrapped(c, value, n) ==
    IF c.err # "" THEN c
    ELSE the({ IF r.err # "" THEN [r.c EXCEPT !.err = r.err]
               ELSE [r.c EXCEPT !.e.column = @ + n] : r \in {Write(c, value, n)} })

\* Emitter.put, n times over.
put(c, value, n) ==
    IF c.err # "" THEN c
    ELSE the({ IF r.err # "" THEN [r.c EXCEPT !.err = "yaml: write error: " \o r.err]
               ELSE [r.c EXCEPT !.e.column = @ + n] : r \in {Write(c, value, n)} })

\* Emitter.putBreak
putBreak(c) ==
    IF c.err # "" THEN c
    ELSE the({ IF r.err # "" THEN [r.c EXCEPT !.err = "yaml: write error: " \o r.err]
               ELSE [r.c EXCEPT !.e.column = 0, !.e.lastCharIndent = TRUE] :
               r \in {Write(c, "\n", 0)} })

\* Emitter.write for each of the n characters of a run; a failure is taken
\* at its first character.
write(c, s, n) ==
    IF c.err # "" THEN c
    ELSE the({ IF r.err # "" THEN [r.c EXCEPT !.err = "yaml: write error: " \o r.err]
               ELSE [r.c EXCEPT !.e.column = @ + n] : r \in {Write(c, s, n)} })

\* Emitter.writeAll: the column moves before the bytes are written.
writeAll(c, s, n) ==
    IF c.err # "" THEN c
    ELSE the({ IF r.err # "" THEN [r.c EXCEPT !.err = "yaml: write error: " \o r.err]
               ELSE r.c : r \in {Write([c EXCEPT !.e.column = @ + n], s, n)} })

writeIndent(c) ==
    IF c.err # "" THEN c
    ELSE LET indent == IF c.e.indentLevel < 0 THEN 0 ELSE c.e.indentLevel IN
         the({ set(c2, [c2.e EXCEPT !.lastCharWhitepace = TRUE]) :
               c2 \in { IF c1.e.column < indent THEN put(c1, " ", indent - c1.e.column) ELSE c1 :
                        c1 \in { IF \/ ~c.e.lastCharIndent
                                    \/ c.e.column > indent
                                    \/ (c.e.column = indent /\ ~c.e.lastCharWhitepace)
                                 THEN putBreak(c) ELSE c } } })

writeIndicator(c, indicator, need_whitespace, is_whitespace, is_indention) ==
    IF c.err # "" THEN c
    ELSE the({ set(c2, [c2.e EXCEPT !.lastCharWhitepace = is_whitespace,
                                    !.lastCharIndent = (@ /\ is_indention),
                                    !.openEnded = FALSE]) :
               c2 \in { writeAll(IF need_whitespace /\ ~c.e.lastCharWhitepace
                                 THEN put(c, " ", 1) ELSE c,
                                 indicator, Len(indicator)) } })

RECURSIVE plain_runs(_, _, _, _)

\* writePlainScalar, the loop over the text from run i on.
plain_runs(c, value, i, st) ==
    IF c.err # "" \/ i > Len(value) THEN c
    ELSE LET chunk == value[i] IN
         IF chunk.c = " "
         THEN plain_runs(IF st.allowBreaks /\ ~st.spaces /\ c.e.column > c.e.width
                         THEN writeIndent(c)
                         ELSE write(c, " ", 1),
                         value, i + 1, [st EXCEPT !.spaces = TRUE])
         ELSE the({ plain_runs(set(c1, [c1.e EXCEPT !.lastCharIndent = FALSE]), value, i + 1,
                               [st EXCEPT !.spaces = FALSE]) :
                    c1 \in {write(c, chunk.c, chunk.n)} })

writePlainScalar(c, value, allowBreaks) ==
    IF c.err # "" THEN c
    ELSE the({ set(c2, [c2.e EXCEPT !.lastCharWhitepace = IF value # <<>> THEN FALSE ELSE @,
                                    !.lastCharIndent = FALSE,
                                    !.openEnded = IF c2.e.rootContext THEN TRUE ELSE @]) :
               c2 \in { plain_runs(IF value # <<>> /\ ~c.e.lastCharWhitepace
                                   THEN put(c, " ", 1) ELSE c,
                                   value, 1, [allowBreaks |-> allowBreaks, spaces |-> FALSE]) } })

\* '0' + byte(e.indent) for the indents 0 to 12
IndentHints == <<"0", "1", "2", "3", "4", "5", "6", "7", "8", "9", ":", ";", "<">>

\* A chomping indicator that keeps no line break.
chomp_hint_strip(value) == "-"

\* The chomping indicator of a value: "" for none.
chomp_hint(value) ==
    IF value = <<>> THEN "-"
    ELSE IF value[Len(value)].c # "\n" THEN "-"
    ELSE IF Len(value) = 1 /\ value[1].n = 1 THEN "+"
    ELSE IF value[Len(value)].n >= 2 THEN "+"
    ELSE ""

writeBlockScalarHints(c, value) ==
    IF c.err # "" THEN c
    ELSE the({ IF c1.err # "" THEN c1
               ELSE IF chomp_hint(value) = "" THEN set(c1, [c1.e EXCEPT !.openEnded = FALSE])
               ELSE writeIndicator(set(c1, [c1.e EXCEPT !.openEnded = chomp_hint(value) = "+"]),
                                   chomp_hint(value), FALSE, FALSE, FALSE) :
               c1 \in { IF value # <<>> /\ value[1].c \in {" ", "\n"}
                        THEN writeIndicator(c, IndentHints[c.e.indent + 1], FALSE, FALSE, FALSE)
                        ELSE c } })

RECURSIVE writeBreak(_, _)

\* Emitter.writeBreak for each of n line breaks "\n"
writeBreak(c, n) ==
    IF c.err # "" \/ n = 0 THEN c ELSE writeBreak(putBreak(c), n - 1)

RECURSIVE literal_runs(_, _, _, _)

\* writeLiteralScalar, the loop over the text from run i on.
literal_runs(c, value, i, breaks) ==
    IF c.err # "" \/ i > Len(value) THEN c
    ELSE IF value[i].c = "\n"
    THEN the({ literal_runs(c1, value, i + 1, TRUE) : c1 \in {writeBreak(c, value[i].n)} })
    ELSE the({ literal_runs(set(c1, [c1.e EXCEPT !.lastCharIndent = FALSE]), value, i + 1, FALSE) :
               c1 \in {write(IF breaks THEN writeIndent(c) ELSE c, value[i].c, value[i].n)} })

\* The scalars a block scalar writer has written: where in the output, and
\* the value.
written_block(c, from, v) ==
    IF c.err # "" THEN c ELSE [c EXCEPT !.w.blocks = @ \cup {[at |-> from, value |-> v]}]

writeLiteralScalar(c, value) ==
    IF c.err # "" THEN c
    ELSE the({ literal_runs(set(c1, [c1.e EXCEPT !.lastCharWhitepace = TRUE]), value, 1, TRUE) :
               c1 \in {writeBlockScalarHints(writeIndicator(c, "|", TRUE, FALSE, FALSE), value)} })

RECURSIVE folded_runs(_, _, _, _)

\* writeFoldedScalar, the loop over the text from run i on; st is breaks and
\* leading_spaces.
folded_runs(c, value, i, st) ==
    IF c.err # "" \/ i > Len(value) THEN c
    ELSE IF value[i].c = "\n"
    THEN the({ folded_runs(c2, value, i + 1, [st EXCEPT !.breaks = TRUE]) :
               c2 \in { writeBreak(IF ~st.breaks /\ ~st.leading_spaces
                                      /\ i < Len(value) /\ value[i + 1].c # " "
                                   THEN putBreak(c) ELSE c,
                                   value[i].n) } })
    ELSE the({ folded_runs(set(c2, [c2.e EXCEPT !.lastCharIndent = FALSE]), value, i + 1,
                           [breaks |-> FALSE,
                            leading_spaces |-> IF st.breaks THEN value[i].c = " "
                                               ELSE st.leading_spaces]) :
               c2 \in { IF ~st.breaks /\ value[i].c = " " /\ c1.e.column + value[i].n - 1 > c1.e.width
                        THEN writeIndent(IF value[i].n > 1
                                         THEN write(c1, " ", value[i].n - 1) ELSE c1)
                        ELSE write(c1, value[i].c, value[i].n) :
                        c1 \in {IF st.breaks THEN writeIndent(c) ELSE c} } })

writeFoldedScalar(c, value) ==
    IF c.err # "" THEN c
    ELSE the({ folded_runs(set(c1, [c1.e EXCEPT !.lastCharWhitepace = TRUE]), value, 1,
                           [breaks |-> TRUE, leading_spaces |-> TRUE]) :
               c1 \in {writeBlockScalarHints(writeIndicator(c, ">", TRUE, FALSE, FALSE), value)} })

\* processScalar; no value of the model is written in a quoted style.
processScalar(c) ==
    IF c.err # "" THEN c
    ELSE CASE c.e.scalarData.style = "PLAIN_SCALAR_STYLE" ->
                 writePlainScalar(c, ScalarRuns(c.e.scalarData.value), ~c.e.simpleKeyContext)
           [] c.e.scalarData.style = "LITERAL_SCALAR_STYLE" ->
                 written_block(writeLiteralScalar(c, ScalarRuns(c.e.scalarData.value)),
                               Len(c.w.out), c.e.scalarData.value)
           [] c.e.scalarData.style = "FOLDED_SCALAR_STYLE" ->
                 written_block(writeFoldedScalar(c, ScalarRuns(c.e.scalarData.value)),
                               Len(c.w.out), c.e.scalarData.value)

\* selectScalarStyle, for an event without a tag at flow level 0.
selectScalarStyle(c, event) ==
    IF c.err # "" THEN c
    ELSE IF ~event.Implicit THEN [c EXCEPT !.err = "neither tag nor implicit flags are specified"]
    ELSE LET sd == c.e.scalarData
             s1 == IF c.e.simpleKeyContext /\ sd.multiline
                   THEN "DOUBLE_QUOTED_SCALAR_STYLE" ELSE event.Style
             s2 == IF s1 = "PLAIN_SCALAR_STYLE"
                      /\ (~sd.blockPlainAllowed \/ (sd.value = "" /\ c.e.simpleKeyContext))
                   THEN "SINGLE_QUOTED_SCALAR_STYLE" ELSE s1
             s3 == IF s2 \in {"LITERAL_SCALAR_STYLE", "FOLDED_SCALAR_STYLE"}
                      /\ (~sd.blockAllowed \/ c.e.simpleKeyContext)
                   THEN "DOUBLE_QUOTED_SCALAR_STYLE" ELSE s2
         IN  set(c, [c.e EXCEPT !.scalarData.style = s3])

writeAnchor(c, value) ==
    the({ set(c1, [c1.e EXCEPT !.lastCharWhitepace = FALSE, !.lastCharIndent = FALSE]) :
          c1 \in {writeAll(c, value, Len(value))} })

\* A processAnchor that writes '&' for every anchor that is not an alias
\* event's.
processAnchor_of_node(c) ==
    IF c.err # "" \/ c.e.anchorData.Anchor = "" THEN c
    ELSE writeAnchor(writeIndicator(c, IF c.e.eventsQueue[c.e.eventsHead + 1].Type = "ALIAS"
                                       THEN "*" ELSE "&", TRUE, FALSE, FALSE),
                     c.e.anchorData.Anchor)

processAnchor(c) ==
    IF c.err # "" \/ c.e.anchorData.Anchor = "" THEN c
    ELSE writeAnchor(writeIndicator(c, IF c.e.anchorData.Alias THEN "*" ELSE "&",
                                    TRUE, FALSE, FALSE),
                     c.e.anchorData.Anchor)

\* Emitter.increaseIndent
increaseIndent(c, flow, indentless) ==
    IF c.err # "" THEN c
    ELSE LET e == [c.e EXCEPT !.indentStack = Append(@, c.e.indentLevel)] IN
         IF e.indentLevel < 0
         THEN set(c, [e EXCEPT !.indentLevel = IF flow THEN e.indent ELSE 0])
         ELSE IF indentless THEN set(c, e)
         ELSE IF e.states[Len(e.states)] = "emitBlockSequenceItemState"
         THEN set(c, [e EXCEPT !.indentLevel = @ + 2])
         ELSE IF e.indent = 0 THEN [c EXCEPT !.e = e, !.err = DivideByZero]
         ELSE set(c, [e EXCEPT !.indentLevel =
                                  e.indent * ((e.indentLevel + e.indent) \div e.indent)])

\* e.indentLevel = e.indentStack[len-1]; e.indentStack = e.indentStack[:len-1]
pop_indent(e) ==
    [e EXCEPT !.indentLevel = e.indentStack[Len(e.indentStack)],
              !.indentStack = SubSeq(@, 1, Len(@) - 1)]

\* e.state = e.states[len-1]; e.states = e.states[:len-1]
pop_emitter_state(e) ==
    [e EXCEPT !.state = e.states[Len(e.states)], !.states = SubSeq(@, 1, Len(@) - 1)]

emitAlias(c, event) ==
    the({ set(c1, pop_emitter_state(c1.e)) : c1 \in {processAnchor(c)} })

emitScalar(c, event) ==
    the({ set(c2, pop_emitter_state(pop_indent(c2.e))) :
          c2 \in {processScalar(increaseIndent(processAnchor(selectScalarStyle(c, event)),
                                               TRUE, FALSE))} })

emitSequenceStart(c, event) ==
    the({ set(c1, [c1.e EXCEPT !.state = "emitBlockSequenceFirstItemState"]) :
          c1 \in {processAnchor(c)} })

emitMappingStart(c, event) ==
    the({ set(c1, [c1.e EXCEPT !.state = "emitBlockMappingFirstKeyState"]) :
          c1 \in {processAnchor(c)} })

emitNode(c, event, root, simpleKey) ==
    IF c.err # "" THEN c
    ELSE the({ CASE event.Type = "ALIAS" -> emitAlias(c1, event)
                 [] event.Type = "SCALAR" -> emitScalar(c1, event)
                 [] event.Type = "SEQUENCE_START" -> emitSequenceStart(c1, event)
                 [] event.Type = "MAPPING_START" -> emitMappingStart(c1, event)
                 [] OTHER -> [c1 EXCEPT !.err =
                                "expected SCALAR, SEQUENCE-START, MAPPING-START, or ALIAS"] :
               c1 \in {set(c, [c.e EXCEPT !.rootContext = root, !.simpleKeyContext = simpleKey])} })

\* checkSimpleKey: the scalars and the anchors here are shorter than 128
\* bytes and the collections are not empty.
checkSimpleKey(e) ==
    CASE e.eventsQueue[e.eventsHead + 1].Type = "ALIAS" -> TRUE
      [] e.eventsQueue[e.eventsHead + 1].Type = "SCALAR" -> ~e.scalarData.multiline
      [] OTHER -> FALSE

emitBlockSequenceItem(c, event, first) ==
    IF c.err # "" THEN c
    ELSE the({ IF event.Type = "SEQUENCE_END"
               THEN set(c1, pop_emitter_state(pop_indent(c1.e)))
               ELSE the({ emitNode(set(c3, [c3.e EXCEPT !.states =
                                              Append(@, "emitBlockSequenceItemState")]),
                                   event, FALSE, FALSE) :
                          c3 \in {writeIndicator(writeIndent(c1), "-", TRUE, FALSE, TRUE)} }) :
               c1 \in {IF first THEN increaseIndent(c, FALSE, FALSE) ELSE c} })

emitBlockMappingKey(c, event, first) ==
    IF c.err # "" THEN c
    ELSE the({ IF event.Type = "MAPPING_END"
               THEN set(c1, pop_emitter_state(pop_indent(c1.e)))
               ELSE the({ IF checkSimpleKey(c2.e)
                          THEN emitNode(set(c2, [c2.e EXCEPT !.states =
                                                   Append(@, "emitBlockMappingSimpleValueState")]),
                                        event, FALSE, TRUE)
                          ELSE the({ emitNode(set(c3, [c3.e EXCEPT !.states =
                                                         Append(@, "emitBlockMappingValueState")]),
                                              event, FALSE, FALSE) :
                                     c3 \in {writeIndicator(c2, "?", TRUE, FALSE, TRUE)} }) :
                          c2 \in {writeIndent(c1)} }) :
               c1 \in {IF first THEN increaseIndent(c, FALSE, FALSE) ELSE c} })

emitBlockMappingValue(c, event, simple) ==
    IF c.err # "" THEN c
    ELSE the({ emitNode(set(c1, [c1.e EXCEPT !.states = Append(@, "emitBlockMappingKeyState")]),
                        event, FALSE, FALSE) :
               c1 \in { IF simple THEN writeIndicator(c, ":", FALSE, FALSE, FALSE)
                        ELSE writeIndicator(writeIndent(c), ":", TRUE, FALSE, TRUE) } })

emitStreamStart(c, event) ==
    IF event.Type # "STREAM_START" THEN [c EXCEPT !.err = "expected STREAM-START"]
    ELSE LET indent == IF c.e.indent < 2 \/ c.e.indent > 9 THEN 2 ELSE c.e.indent
             w1 == IF c.e.width >= 0 /\ c.e.width <= indent * 2 THEN 80 ELSE c.e.width
             width == IF w1 < 0 THEN 2147483647 ELSE w1
         IN  set(c, [c.e EXCEPT !.indent = indent, !.width = width,
                                !.indentLevel = -1, !.column = 0,
                                !.lastCharWhitepace = TRUE, !.lastCharIndent = TRUE,
                                !.state = "emitFirstDocumentStartState"])

\* A document start that writes "---" for the first document as well.
emitDocumentStartEvent_explicit(c, event, first) ==
    the({ set(c3, [c3.e EXCEPT !.state = "EmitDocumentContentState"]) :
          c3 \in {writeIndent(writeIndicator(writeIndent(c), "---", TRUE, FALSE, FALSE))} })

emitDocumentStartEvent(c, event, first) ==
    LET implicit == IF ~first THEN FALSE ELSE event.Implicit IN
    the({ set(c1, [c1.e EXCEPT !.state = "EmitDocumentContentState"]) :
          c1 \in { IF ~implicit
                   THEN writeIndent(writeIndicator(writeIndent(c), "---", TRUE, FALSE, FALSE))
                   ELSE c } })

emitDocumentStart(c, event, first) ==
    IF event.Type = "DOCUMENT_START" THEN emitDocumentStartEvent(c, event, first)
    ELSE IF event.Type = "STREAM_END"
    THEN the({ set(c1, [c1.e EXCEPT !.state = "emitEndState"]) :
               c1 \in { IF c.e.openEnded
                        THEN writeIndent(writeIndicator(c, "...", TRUE, FALSE, FALSE))
                        ELSE c } })
    ELSE [c EXCEPT !.err = "expected DOCUMENT-START or STREAM-END"]

emitDocumentContent(c, event) ==
    emitNode(set(c, [c.e EXCEPT !.states = Append(@, "emitDocumentEndState")]),
             event, TRUE, FALSE)

emitDocumentEnd(c, event) ==
    IF event.Type # "DOCUMENT_END" THEN [c EXCEPT !.err = "expected DOCUMENT-END"]
    ELSE the({ set(c2, [c2.e EXCEPT !.state = "emitDocumentStartState"]) :
               c2 \in { IF ~event.Implicit
                        THEN writeIndent(writeIndicator(c1, "...", TRUE, FALSE, FALSE))
                        ELSE c1 : c1 \in {writeIndent(c)} } })

\* A state machine that takes a new document after STREAM-END.
stateMachine_restarting(c, event) ==
    CASE c.e.state = "emitStreamStartState" -> emitStreamStart(c, event)
      [] c.e.state = "emitFirstDocumentStartState" -> emitDocumentStart(c, event, TRUE)
      [] c.e.state = "emitDocumentStartState" -> emitDocumentStart(c, event, FALSE)
      [] c.e.state = "EmitDocumentContentState" -> emitDocumentContent(c, event)
      [] c.e.state = "emitDocumentEndState" -> emitDocumentEnd(c, event)
      [] c.e.state = "emitBlockSequenceFirstItemState" -> emitBlockSequenceItem(c, event, TRUE)
      [] c.e.state = "emitBlockSequenceItemState" -> emitBlockSequenceItem(c, event, FALSE)
      [] c.e.state = "emitBlockMappingFirstKeyState" -> emitBlockMappingKey(c, event, TRUE)
      [] c.e.state = "emitBlockMappingKeyState" -> emitBlockMappingKey(c, event, FALSE)
      [] c.e.state = "emitBlockMappingSimpleValueState" -> emitBlockMappingValue(c, event, TRUE)
      [] c.e.state = "emitBlockMappingValueState" -> emitBlockMappingValue(c, event, FALSE)
      [] c.e.state = "emitEndState" -> emitDocumentStart(c, event, FALSE)

stateMachine(c, event) ==
    CASE c.e.state = "emitStreamStartState" -> emitStreamStart(c, event)
      [] c.e.state = "emitFirstDocumentStartState" -> emitDocumentStart(c, event, TRUE)
      [] c.e.state = "emitDocumentStartState" -> emitDocumentStart(c, event, FALSE)
      [] c.e.state = "EmitDocumentContentState" -> emitDocumentContent(c, event)
      [] c.e.state = "emitDocumentEndState" -> emitDocumentEnd(c, event)
      [] c.e.state = "emitBlockSequenceFirstItemState" -> emitBlockSequenceItem(c, event, TRUE)
      [] c.e.state = "emitBlockSequenceItemState" -> emitBlockSequenceItem(c, event, FALSE)
      [] c.e.state = "emitBlockMappingFirstKeyState" -> emitBlockMappingKey(c, event, TRUE)
      [] c.e.state = "emitBlockMappingKeyState" -> emitBlockMappingKey(c, event, FALSE)
      [] c.e.state = "emitBlockMappingSimpleValueState" -> emitBlockMappingValue(c, event, TRUE)
      [] c.e.state = "emitBlockMappingValueState" -> emitBlockMappingValue(c, event, FALSE)
      [] c.e.state = "emitEndState" -> [c EXCEPT !.err = "expected nothing after STREAM-END"]

analyzeAnchor(c, name, is_alias) ==
    IF c.err # "" THEN c
    ELSE IF name = ""
    THEN [c EXCEPT !.err = IF is_alias THEN "alias value must not be empty"
                           ELSE "anchor value must not be empty"]
    ELSE set(c, [c.e EXCEPT !.anchorData = [Anchor |-> name, Alias |-> is_alias]])

\* analyzeEvent: the anchor of the event and the analysis of a scalar.
analyzeEvent(c, event) ==
    IF c.err # "" THEN c
    ELSE the({ CASE event.Type = "ALIAS" -> analyzeAnchor(c1, event.Anchor, TRUE)
                 [] event.Type = "SCALAR" ->
                        the({ set(c2, [c2.e EXCEPT !.scalarData = analyzeScalar(event.Value)]) :
                              c2 \in { IF event.Anchor # ""
                                       THEN analyzeAnchor(c1, event.Anchor, FALSE) ELSE c1 } })
                 [] event.Type \in {"SEQUENCE_START", "MAPPING_START"} ->
                        IF event.Anchor # "" THEN analyzeAnchor(c1, event.Anchor, TRUE) ELSE c1
                 [] OTHER -> c1 :
               c1 \in {set(c, [c.e EXCEPT !.anchorData.Anchor = "",
                                          !.scalarData.value = ""])} })

RECURSIVE queue_level(_, _, _)

\* readyToEmit, the loop from event i on: TRUE when the nesting level comes
\* back to zero.
queue_level(e, i, level) ==
    IF i > Len(e.eventsQueue) THEN FALSE
    ELSE LET type == e.eventsQueue[i].Type
             l == IF type \in {"STREAM_START", "DOCUMENT_START", "SEQUENCE_START",
                               "MAPPING_START"} THEN level + 1
                  ELSE IF type \in {"STREAM_END", "DOCUMENT_END", "SEQUENCE_END",
                                    "MAPPING_END"} THEN level - 1
                  ELSE level
         IN  IF l = 0 THEN TRUE ELSE queue_level(e, i + 1, l)

\* A readyToEmit that accumulates four events for MAPPING-START.
readyToEmit_late(e) ==
    IF e.eventsHead = Len(e.eventsQueue) THEN FALSE
    ELSE LET type == e.eventsQueue[e.eventsHead + 1].Type IN
         IF type \notin {"DOCUMENT_START", "SEQUENCE_START", "MAPPING_START"} THEN TRUE
         ELSE LET accumulate == CASE type = "DOCUMENT_START" -> 1
                                  [] type = "SEQUENCE_START" -> 2
                                  [] type = "MAPPING_START" -> 4
              IN  IF Len(e.eventsQueue) - e.eventsHead > accumulate THEN TRUE
                  ELSE queue_level(e, e.eventsHead + 1, 0)

\* Emitter.readyToEmit
readyToEmit(e) ==
    IF e.eventsHead = Len(e.eventsQueue) THEN FALSE
    ELSE LET type == e.eventsQueue[e.eventsHead + 1].Type IN
         IF type \notin {"DOCUMENT_START", "SEQUENCE_START", "MAPPING_START"} THEN TRUE
         ELSE LET accumulate == CASE type = "DOCUMENT_START" -> 1
                                  [] type = "SEQUENCE_START" -> 2
                                  [] type = "MAPPING_START" -> 3
              IN  IF Len(e.eventsQueue) - e.eventsHead > accumulate THEN TRUE
                  ELSE queue_level(e, e.eventsHead + 1, 0)

\* e.eventsQueue = append(e.eventsQueue, *event)
enqueue(e, event) == [e EXCEPT !.eventsQueue = Append(@, event)]

\* An Emit loop that hands one event to the state machine and returns.
emit_loop_once(c) ==
    IF c.err # "" \/ ~readyToEmit(c.e) THEN c
    ELSE LET event == c.e.eventsQueue[c.e.eventsHead + 1] IN
         the({ IF c2.err # "" THEN c2 ELSE [c2 EXCEPT !.e.eventsHead = @ + 1] :
               c2 \in { IF c1.err # "" THEN c1 ELSE stateMachine(c1, event) :
                        c1 \in { analyzeEvent([c EXCEPT !.w.processed = Append(@, event.no)],
                                              event) } } })

RECURSIVE emit_loop(_)

\* Emitter.Emit, the loop: the event at the head is analyzed and handed to
\* the state machine; the head moves on when both returned no error.
emit_loop(c) ==
    IF c.err # "" \/ ~readyToEmit(c.e) THEN c
    ELSE LET event == c.e.eventsQueue[c.e.eventsHead + 1] IN
         the({ IF c2.err # "" THEN c2 ELSE emit_loop([c2 EXCEPT !.e.eventsHead = @ + 1]) :
               c2 \in { IF c1.err # "" THEN c1 ELSE stateMachine(c1, event) :
                        c1 \in { analyzeEvent([c EXCEPT !.w.processed = Append(@, event.no)],
                                              event) } } })

\* Emit returns: the events left in the queue when it returns nil are counted.
emit_returned(c) ==
    IF c.err # "" \/ Len(c.e.eventsQueue) - c.e.eventsHead <= c.w.held THEN c
    ELSE [c EXCEPT !.w.held = Len(c.e.eventsQueue) - c.e.eventsHead]

\* An Emit that leaves openEnded as it is.
Emit_not_final(c, event, final) ==
    IF c.err # "" THEN c ELSE emit_returned(emit_loop(set(c, enqueue(c.e, event))))

\* Emitter.Emit
Emit(c, event, final) ==
    IF c.err # "" THEN c
    ELSE emit_returned(emit_loop(set(c, enqueue([c.e EXCEPT !.openEnded =
                                                    IF final THEN FALSE ELSE @],
                                                event))))

\* Emitter.SetIndent; a negative number panics.
SetIndent(e, spaces) == [e EXCEPT !.indent = spaces]

\* The Go values encoded.
GoString(s) == [kind |-> "string", s |-> s, k |-> "", depth |-> 0]
GoMap(k, inner) == [kind |-> "map", s |-> inner, k |-> k, depth |-> 1]
GoSlice(s) == [kind |-> "slice", s |-> s, k |-> "", depth |-> 1]

EncodedValues ==
    {GoString("x"), GoString("long"), GoMap("a", "x"), GoMap("a", "b"), GoSlice("x")}

\* A *yaml.Node: a scalar node of style 0, LiteralStyle or FoldedStyle, a
\* sequence node of one scalar, a mapping node of the key "a" and one scalar,
\* and ("AliasedNode") a sequence node of a scalar node with the anchor and an
\* alias node for it.  The anchor is that of the node itself.
GoNode(kind, name, value) == [kind |-> kind, s |-> value, k |-> name, depth |-> 0]

NodeKinds ==
    {"ScalarNode", "LiteralNode", "FoldedNode", "SequenceNode", "MappingNode", "AliasedNode"}

BlockValues == {"x", "a\n", "a\n\n", "\n", "\n\n", "a\nb", " a\n"}

NodeValues ==
    { GoNode(kind, "n", "x") : kind \in {"ScalarNode", "SequenceNode", "MappingNode",
                                         "AliasedNode"} }
    \cup { GoNode(kind, "", value) : kind \in {"LiteralNode", "FoldedNode"},
                                     value \in BlockValues }

\* Encoder.encodeNode, case ScalarNode: the style of the event.
node_style(v) ==
    CASE v.kind = "LiteralNode" -> "LITERAL_SCALAR_STYLE"
      [] v.kind = "FoldedNode" -> "FOLDED_SCALAR_STYLE"
      [] \E i \in DOMAIN ScalarRuns(v.s) : ScalarRuns(v.s)[i].c = "\n" -> "LITERAL_SCALAR_STYLE"
      [] OTHER -> "PLAIN_SCALAR_STYLE"

\* Encoder.encodeNode: the Emit calls made for a node.
encodeNode(v) ==
    CASE v.kind = "SequenceNode" ->
            <<[event |-> of_node(sequenceStartEvent, v.k, ""), final |-> FALSE],
              [event |-> scalarEvent(v.s), final |-> FALSE],
              [event |-> sequenceEndEvent, final |-> FALSE]>>
      [] v.kind = "MappingNode" ->
            <<[event |-> of_node(mappingStartEvent, v.k, ""), final |-> FALSE],
              [event |-> scalarEvent("a"), final |-> FALSE],
              [event |-> scalarEvent(v.s), final |-> FALSE],
              [event |-> mappingEndEvent, final |-> FALSE]>>
      [] v.kind = "AliasedNode" ->
            <<[event |-> sequenceStartEvent, final |-> FALSE],
              [event |-> of_node(scalarEvent(v.s), v.k, "PLAIN_SCALAR_STYLE"), final |-> FALSE],
              [event |-> aliasEvent(v.k), final |-> FALSE],
              [event |-> sequenceEndEvent, final |-> FALSE]>>
      [] OTHER ->
            <<[event |-> of_node(scalarEvent(v.s), v.k, node_style(v)), final |-> FALSE]>>

\* Encoder.marshal: the Emit calls made for a value, as (event, final) pairs.
\* The map {a: {b: x}} is the GoMap("a", "b").
marshal(v) ==
    CASE v.kind \in NodeKinds -> encodeNode(v)
      [] v.kind = "string" -> <<[event |-> scalarEvent(v.s), final |-> FALSE]>>
      [] v.kind = "slice" ->
            <<[event |-> sequenceStartEvent, final |-> FALSE],
              [event |-> scalarEvent(v.s), final |-> FALSE],
              [event |-> sequenceEndEvent, final |-> FALSE]>>
      [] v.kind = "map" /\ v.s = "x" ->
            <<[event |-> mappingStartEvent, final |-> TRUE],
              [event |-> scalarEvent(v.k), final |-> FALSE],
              [event |-> scalarEvent(v.s), final |-> FALSE],
              [event |-> mappingEndEvent, final |-> FALSE]>>
      [] OTHER ->
            <<[event |-> mappingStartEvent, final |-> TRUE],
              [event |-> scalarEvent(v.k), final |-> FALSE],
              [event |-> mappingStartEvent, final |-> TRUE],
              [event |-> scalarEvent(v.s), final |-> FALSE],
              [event |-> scalarEvent("x"), final |-> FALSE],
              [event |-> mappingEndEvent, final |-> FALSE],
              [event |-> mappingEndEvent, final |-> FALSE]>>

\* NewEncoder; sent counts the events passed to Emit.
NewEncoder == [emitter |-> New, started |-> FALSE, sent |-> 0]

\* A call in progress on the Encoder.
EncCtx(enc, c) == [enc |-> enc, c |-> c]

\* e.emitter.Emit(event, final) by the Encoder; nothing is called after an error.
encoder_emit(x, call) ==
    IF x.c.err # "" THEN x
    ELSE EncCtx([x.enc EXCEPT !.sent = @ + 1],
                Emit(x.c, [call.event EXCEPT !.no = x.enc.sent + 1], call.final))

RECURSIVE encoder_emit_all(_, _, _)

encoder_emit_all(x, calls, i) ==
    IF i > Len(calls) THEN x
    ELSE encoder_emit_all(encoder_emit(x, calls[i]), calls, i + 1)

\* Encoder.Encode
Encode(x, v) ==
    the({ encoder_emit(encoder_emit_all(encoder_emit(x1, [event |-> documentStartEvent,
                                                          final |-> FALSE]),
                                        marshal(v), 1),
                       [event |-> documentEndEvent, final |-> FALSE]) :
          x1 \in { IF y.c.err # "" \/ x.enc.started THEN y ELSE [y EXCEPT !.enc.started = TRUE] :
                   y \in { IF ~x.enc.started
                           THEN encoder_emit(x, [event |-> streamStartEvent, final |-> FALSE])
                           ELSE x } } })

\* Encoder.Close
Close(x) == encoder_emit(x, [event |-> streamEndEvent, final |-> TRUE])

\* The calls made on one Encoder and the writes that fail.
MaxCalls == 3
MaxNodeCalls == 2
MaxWriteErrors == 1
MaxFailAt == 5

\* The arguments of SetIndent.
IndentArgs == {0, 1, 8, 12}

\* The call that returned last: its error ("" for nil), the length of the
\* output when it was made, whether a Write call failed in it, and whether
\* no Encode call was made before it.
NoEncoderCall == [op |-> "", err |-> "", from |-> 0, failed |-> FALSE, first |-> TRUE]

\* An Encoder over a writer, before any call; encoded tells whether Encode was
\* called, errors counts the Write calls that failed, clean tells whether
\* every call so far returned nil.
EncoderInit ==
    [enc |-> NewEncoder, w |-> NewWriter, last |-> NoEncoderCall,
     calls |-> 0, encoded |-> FALSE, errors |-> 0, clean |-> TRUE]

\* The Encoder call op that ended in x, made in state s.
encoder_returned(s, x, op) ==
    [enc |-> [x.enc EXCEPT !.emitter = x.c.e],
     w |-> [x.c.w EXCEPT !.failAt = 0, !.failed = FALSE],
     last |-> [op |-> op, err |-> x.c.err, from |-> Len(s.w.out),
               failed |-> x.c.w.failed, first |-> ~s.encoded],
     calls |-> s.calls + 1,
     encoded |-> s.encoded \/ op = "Encode",
     errors |-> s.errors + (IF x.c.w.failed THEN 1 ELSE 0),
     clean |-> s.clean /\ x.c.err = ""]

\* The Encoder of state s entering a call in which the k-th Write fails.
encoder_entered(s, k) ==
    EncCtx(s.enc, Ctx(s.enc.emitter, [s.w EXCEPT !.failAt = k, !.failed = FALSE]))

\* ---------------------------------------------------------------------------
\* The reader and the scanner above it (decode.go, package parserc, and the
\* scanner of part_001).  The input is made of the characters "," (an
\* indicator that is a token of its own), "#" (a comment up to the end of the
\* line) and "\n"; "0" is the NUL the buffer is ended with.  The byte source
\* is an io.Reader: a Read call gives some bytes, io.EOF, or another error,
\* and nothing makes a call that follows an error fail as well.

MaxInput == 4
MaxReads == 3
MaxChunk == 2

InputChars == {",", "#", "\n"}

Inputs == UNION { [1..n -> InputChars] : n \in 0..MaxInput }

\* What the Read calls return, one after the other: a number of bytes, or 0
\* for an error; the calls after these give MaxChunk bytes each.
ReadSchedules == UNION { [1..n -> 0..MaxChunk] : n \in 0..MaxReads }

ReadError == "some read error"

\* buildParserError(errType, problem, 0, 0): no line is given.
buildParserError(problem) ==
    "yaml: " \o (IF problem = "" THEN "unknown problem parsing YAML content" ELSE problem)

newReaderError(problem) == buildParserError(problem)

\* The YamlParser as the scanner uses it: input is the whole input, src what
\* the source has not given yet, reads what its next Read calls return, raw the raw buffer from
\* Raw_buffer_pos on, buf the Unread characters of the buffer.  readFailed
\* tells whether a Read call has returned an error other than io.EOF, err is
\* the error the fetch call returns ("" for nil).  pad is the number of bytes
\* the buffer holds behind the Unread characters, all of them NUL.  Short tells
\* that a call for a length has returned nil with fewer bytes than that from
\* Buffer_pos on, Late that such a call was made with Eof set before it.
ScannerInit(input, reads) ==
    [input |-> input, src |-> input, reads |-> reads, Eof |-> FALSE, Encoding |-> "ANY",
     raw |-> <<>>, buf |-> <<>>, Newlines |-> 0,
     Stream_start_produced |-> FALSE, Stream_end_produced |-> FALSE,
     tokens |-> <<>>, readFailed |-> FALSE, err |-> "",
     pad |-> 0, Short |-> FALSE, Late |-> FALSE]

\* parser.Buffer[parser.Buffer_pos+i-1]; behind the Unread characters the
\* buffer holds NULs.
char(s, i) == IF i <= Len(s.buf) THEN s.buf[i] ELSE "0"

yaml_parser_update_raw_buffer(s) ==
    IF s.Eof THEN s
    ELSE LET outcome == IF s.reads = <<>> THEN MaxChunk ELSE Head(s.reads)
             rest == IF s.reads = <<>> THEN <<>> ELSE Tail(s.reads)
         IN  IF outcome = 0
             THEN [s EXCEPT !.reads = rest, !.readFailed = TRUE,
                            !.err = newReaderError("input error: " \o ReadError)]
             ELSE IF s.src = <<>>
             THEN [s EXCEPT !.reads = rest, !.Eof = TRUE]
             ELSE LET n == IF outcome < Len(s.src) THEN outcome ELSE Len(s.src)
                  IN  [s EXCEPT !.reads = rest,
                                !.raw = @ \o SubSeq(s.src, 1, n),
                                !.src = SubSeq(@, n + 1, Len(@))]

RECURSIVE yaml_parser_determine_encoding(_)

\* No byte order mark: the encoding is UTF-8.
yaml_parser_determine_encoding(s) ==
    IF s.err # "" THEN s
    ELSE IF ~s.Eof /\ Len(s.raw) < 3
    THEN yaml_parser_determine_encoding(yaml_parser_update_raw_buffer(s))
    ELSE [s EXCEPT !.Encoding = "UTF8"]

RECURSIVE update_buffer_fill(_, _, _)

\* yaml_parser_update_buffer, the loop that fills the buffer.
update_buffer_fill(s, length, first) ==
    IF Len(s.buf) >= length THEN s
    ELSE the({ IF s1.err # "" THEN s1
               ELSE IF s1.Eof THEN [s1 EXCEPT !.buf = Append(@ \o s1.raw, "0"), !.raw = <<>>]
               ELSE update_buffer_fill([s1 EXCEPT !.buf = @ \o s1.raw, !.raw = <<>>],
                                       length, FALSE) :
               s1 \in { IF ~first \/ s.raw = <<>>
                        THEN yaml_parser_update_raw_buffer(s) ELSE s } })

\* The buffer cut where the loop has left it, as the function did before it
\* was changed to guarantee the length at the end of the input.
update_buffer_cut_at_eof(s, length) ==
    IF s.err # "" \/ Len(s.buf) >= length THEN s
    ELSE the({ IF s1.err # "" THEN s1 ELSE update_buffer_fill(s1, length, TRUE) :
               s1 \in { IF s.Encoding = "ANY" THEN yaml_parser_determine_encoding(s) ELSE s } })

\* for buffer_len < length { parser.Buffer[buffer_len] = 0; buffer_len++ }
update_buffer_pad(s, length) ==
    IF s.err # "" THEN s
    ELSE [s EXCEPT !.pad = IF Len(s.buf) + @ < length THEN length - Len(s.buf) ELSE @]

yaml_parser_update_buffer(s, length) ==
    IF s.err # "" \/ Len(s.buf) >= length THEN s
    ELSE the({ IF s1.err # "" THEN s1
               ELSE update_buffer_pad(update_buffer_fill(s1, length, TRUE), length) :
               s1 \in { IF s.Encoding = "ANY" THEN yaml_parser_determine_encoding(s) ELSE s } })

\* if parser.Unread < length { err := yaml_parser_update_buffer(parser, length) ... }
cache(s, length) ==
    IF s.err # "" \/ Len(s.buf) >= length THEN s
    ELSE the({ IF u.err # "" THEN u
               ELSE [u EXCEPT !.Short = @ \/ Len(u.buf) + u.pad < length,
                              !.Late = @ \/ s.Eof] :
               u \in {yaml_parser_update_buffer(s, length)} })

skip(s) == [s EXCEPT !.buf = Tail(@), !.Newlines = 0]

skip_line(s) ==
    IF char(s, 1) = "\n" THEN [s EXCEPT !.buf = Tail(@), !.Newlines = @ + 1] ELSE s

RECURSIVE consume_comment(_, _)

\* The loop that consumes up to the end of the comment line; the first k
\* characters come before the comment.
consume_comment(s, k) ==
    the({ IF u.err # "" THEN u
          ELSE IF char(u, 1) \in {"\n", "0"}
          THEN IF k = 0 \/ char(u, 1) = "0" THEN u
               ELSE the({ IF w.err # "" THEN w ELSE consume_comment(skip_line(w), k - 1) :
                          w \in {cache(u, 2)} })
          ELSE consume_comment(skip(u), IF k = 0 THEN 0 ELSE k - 1) :
          u \in {cache(s, 1)} })

yaml_parser_scan_line_comment(s) ==
    IF s.err # "" \/ s.Newlines > 0 THEN s
    ELSE the({ IF u.err # "" THEN u
               ELSE IF char(u, 1) = "#" THEN consume_comment(u, 0)
               ELSE u : u \in {cache(s, 1)} })

PeekLimit == 512

RECURSIVE scan_comments_peek(_, _)

\* yaml_parser_scan_comments, the lookahead loop: when
\* yaml_parser_update_buffer returns an error the loop is left and the error
\* is dropped.
scan_comments_peek(s, peek) ==
    IF peek >= PeekLimit THEN s
    ELSE the({ IF u.err # "" THEN [u EXCEPT !.err = ""]
               ELSE LET c == char(u, peek + 1) IN
                    IF c = "0" THEN u
                    ELSE IF c = "\n" THEN scan_comments_peek(u, peek + 1)
                    ELSE IF c # "#" THEN u
                    ELSE the({ IF v.err # "" THEN v ELSE scan_comments_peek(v, 1) :
                               v \in {consume_comment(u, peek)} }) :
               u \in {cache(s, peek + 1)} })

yaml_parser_scan_comments(s) == IF s.err # "" THEN s ELSE scan_comments_peek(s, 0)

RECURSIVE yaml_parser_scan_to_next_token(_)

yaml_parser_scan_to_next_token(s) ==
    the({ IF v.err # "" THEN v
          ELSE IF char(v, 1) = "\n"
          THEN the({ IF w.err # "" THEN w ELSE yaml_parser_scan_to_next_token(skip_line(w)) :
                     w \in {cache(v, 2)} })
          ELSE v :
          v \in { IF u.err = "" /\ char(u, 1) = "#" THEN yaml_parser_scan_comments(u) ELSE u :
                  u \in {cache(s, 1)} } })

yaml_parser_fetch_stream_start(s) ==
    [s EXCEPT !.Stream_start_produced = TRUE, !.tokens = Append(@, "STREAM_START")]

yaml_parser_fetch_stream_end(s) ==
    [s EXCEPT !.Stream_end_produced = TRUE, !.tokens = Append(@, "STREAM_END")]

yaml_parser_fetch_flow_entry(s) ==
    [skip(s) EXCEPT !.tokens = Append(@, "FLOW_ENTRY")]

yaml_parser_fetch_next_token(s) ==
    the({ IF u.err # "" THEN u
          ELSE IF ~u.Stream_start_produced THEN yaml_parser_fetch_stream_start(u)
          ELSE the({ IF w.err # "" THEN w
                     ELSE IF char(w, 1) = "0" THEN yaml_parser_fetch_stream_end(w)
                     ELSE IF char(w, 1) = ","
                     THEN yaml_parser_scan_line_comment(yaml_parser_fetch_flow_entry(w))
                     ELSE [w EXCEPT !.err =
                             buildParserError("found character that cannot start any token")] :
                     w \in {cache(yaml_parser_scan_to_next_token(u), 4)} }) :
          u \in {cache(s, 1)} })

ScannerIdle == ScannerInit(<<>>, <<>>)

\* ---------------------------------------------------------------------------
\* The scanner, token by token (src/unnamed/part_001, peek_token, skip_token,
\* yaml_parser_fetch_more_tokens and the fetchers below it).
\*
\* The text is a sequence of code points, all of it in the buffer; the reader
\* and the comments are left to the part above.  The texts are written with
\* '[', ']', '?', ':', '-', the letter a, the space and the line feed, so
\* that flow collections, block sequences, explicit keys, simple keys, plain
\* scalars, document starts ("---") and lines all occur.  Beside the short
\* texts there are the deep ones, which open one level more than the scanner
\* allows, and the wide ones, whose ':' comes at the edge of a simple key's
\* reach, and two texts that leave a flow collection open behind a required
\* key.

max_flow_level == 10000
max_indents == 10000
KeyReach == 1024

MaxText == 4
DeepLeft == 5

ScanChars == {"[", "]", "?", ":", "-", "a", " ", "\n"}

\* A text: head, then unit repeated times over, then tail.
Text(head, unit, times, tail) ==
    [head |-> head, unit |-> unit, times |-> times, tail |-> tail]

TextLen(t) == Len(t.head) + t.times * Len(t.unit) + Len(t.tail)

\* The i-th code point of the text, counted from 1.
TextAt(t, i) ==
    IF i <= Len(t.head) THEN t.head[i]
    ELSE IF i <= Len(t.head) + t.times * Len(t.unit)
    THEN t.unit[((i - Len(t.head) - 1) % Len(t.unit)) + 1]
    ELSE t.tail[i - Len(t.head) - t.times * Len(t.unit)]

ShortTexts(n) == { Text(chars, <<>>, 0, <<>>) : chars \in UNION { [1..k -> ScanChars] : k \in 0..n } }

\* "[\n[\n[\n..." and "- - - ...".
DeepTexts ==
    { Text(<<>>, <<"[", "\n">>, max_flow_level + 1, <<>>),
      Text(<<>>, <<"-", " ">>, max_indents + 1, <<>>) }

\* A key at the top level, or one at column 0 of a block mapping (a required
\* key), whose ':' comes d characters after the start of the key; between them
\* the key goes on, or blanks follow it.
WideTexts ==
    { Text(pre, <<pad>>, d - 1, <<":">>) :
        pre \in {<<"a">>, <<"a", ":", "\n", "a">>}, pad \in {"a", " "},
        d \in {KeyReach, KeyReach + 1} }

\* A flow collection at column 0 of a block sequence (a required key) with no
\* ':' after it, and a flow collection left open behind it: "-\n[][" and
\* "-\n[a][".
OpenTexts ==
    { Text(<<"-", "\n", "[">> \o inner \o <<"]", "[">>, <<>>, 0, <<>>) :
        inner \in {<<>>, <<"a">>} }

\* Flow sequences that are closed while the token of a key of theirs waits in
\* the queue: in "[\na[[]]]" the key is still possible when its token comes
\* to the head, in "[a\n: ]" the ':' on the next line has given it up.
LevelTexts ==
    { Text(<<"[", "\n", "a", "[", "[", "]", "]", "]">>, <<>>, 0, <<>>),
      Text(<<"[", "a", "\n", ":", " ", "]">>, <<>>, 0, <<>>) }

ScanTexts(n) == ShortTexts(n) \cup WideTexts \cup OpenTexts \cup LevelTexts

NoMark == [Index |-> 0, Line |-> 0, Column |-> 0]

\* yamlh.SimpleKey.  First is the number, in the order of their making, of
\* the token made next after the key was saved: the key's first token.
SimpleKey(possible, required, token_number, mark, first) ==
    [Possible |-> possible, Required |-> required, Token_number |-> token_number,
     Mark |-> mark, First |-> first]

\* The YamlParser as the scanner uses it.  Tokens holds the queue from
\* Tokens_head on; the values of the map Simple_keys_by_tok are places in
\* Simple_keys, counted from 1;
\* err is the error the call returns ("" for nil).  Some fields record what
\* has happened: Made counts the tokens made, Inserted lists the KEY tokens
\* inserted for simple keys, Required_keys holds the Index of every required
\* key that was saved, Block_starts and Block_ends count the
\* BLOCK-SEQUENCE-START and BLOCK-MAPPING-START tokens and the BLOCK-END tokens
\* the parser has taken (Unmatched_end tells that at some time it had taken
\* more of the latter), Last_start is the start of the token taken last and
\* Out_of_order tells that a token was taken that starts before the one taken
\* before it, Looked_up holds the places in Simple_keys that the lookups for
\* the head token have found in the map.
TokenizerInit(input) ==
    [input |-> input, Mark |-> NoMark, Flow_level |-> 0, Indent |-> 0, Indents |-> <<>>,
     Simple_key_allowed |-> FALSE, Simple_keys |-> <<>>, Simple_keys_by_tok |-> <<>>,
     Tokens |-> <<>>, Tokens_parsed |-> 0, Token_available |-> FALSE,
     Stream_start_produced |-> FALSE, Stream_end_produced |-> FALSE, err |-> "",
     Made |-> 0, Inserted |-> <<>>, Required_keys |-> {}, Block_starts |-> 0,
     Block_ends |-> 0, Unmatched_end |-> FALSE, Last_start |-> 0, Out_of_order |-> FALSE,
     Looked_up |-> {}]

TokenizerIdle == TokenizerInit(Text(<<>>, <<>>, 0, <<>>))

\* parser.Buffer[parser.Buffer_pos+k]; the buffer ends with NULs ("").
look(s, k) ==
    IF s.Mark.Index + k + 1 <= TextLen(s.input) THEN TextAt(s.input, s.Mark.Index + k + 1) ELSE ""

Is_z(c) == c = ""
Is_blank(c) == c = " "
Is_break(c) == c = "\n"
Is_blankz(c) == Is_blank(c) \/ Is_break(c) \/ Is_z(c)

\* skip, n times over.
skip_n(s, n) == [s EXCEPT !.Mark.Index = @ + n, !.Mark.Column = @ + n]

\* skip_line at a line feed.
skip_break(s) ==
    [s EXCEPT !.Mark.Index = @ + 1, !.Mark.Column = 0, !.Mark.Line = @ + 1]

\* The number of spaces at the position.
blanks_run(s) ==
    CHOOSE n \in 0..(TextLen(s.input) - s.Mark.Index) :
        /\ ~Is_blank(look(s, n))
        /\ \A m \in 0..(n - 1) : Is_blank(look(s, m))

\* A Go run-time panic (index out of range).
Panic == "panic: runtime error: index out of range"

\* The panic of a slice expression that starts past the end.
SlicePanic == "panic: runtime error: slice bounds out of range"

newScannerError(problem) == buildParserError(problem)

ExpectedColon == newScannerError("could not find expected ':'")

\* The map Simple_keys_by_tok is kept as a sequence: its entry k + 1 is the
\* value at the token number k, or 0 if the map has no such key.
map_get(f, k) == IF k + 1 <= Len(f) THEN f[k + 1] ELSE 0

map_set(f, k, v) ==
    IF k + 1 <= Len(f) THEN [f EXCEPT ![k + 1] = v]
    ELSE f \o [i \in 1..(k - Len(f)) |-> 0] \o <<v>>

map_delete(f, k) == IF k + 1 <= Len(f) THEN [f EXCEPT ![k + 1] = 0] ELSE f

yaml_insert_token(s, pos, type, start) ==
    IF pos < 0
    THEN [s EXCEPT !.Tokens = Append(@, [Type |-> type, Start |-> start, Id |-> s.Made]),
                   !.Made = @ + 1]
    ELSE IF pos > Len(s.Tokens)
    THEN [s EXCEPT !.err = SlicePanic]
    ELSE [s EXCEPT !.Tokens = SubSeq(@, 1, pos)
                                \o <<[Type |-> type, Start |-> start, Id |-> s.Made]>>
                                \o SubSeq(@, pos + 1, Len(@)),
                   !.Made = @ + 1]

\* The result is the parser and the boolean the function returns; i is the
\* place of the key in Simple_keys.
yaml_simple_key_is_valid(s, i) ==
    IF ~s.Simple_keys[i].Possible
    THEN [p |-> s, valid |-> FALSE]
    ELSE IF \/ s.Simple_keys[i].Mark.Line < s.Mark.Line
            \/ s.Simple_keys[i].Mark.Index + KeyReach < s.Mark.Index
    THEN IF s.Simple_keys[i].Required
         THEN [p |-> [s EXCEPT !.err = ExpectedColon], valid |-> FALSE]
         ELSE [p |-> [s EXCEPT !.Simple_keys[i].Possible = FALSE], valid |-> FALSE]
    ELSE [p |-> s, valid |-> TRUE]

yaml_parser_remove_simple_key(s) ==
    IF s.Simple_keys[Len(s.Simple_keys)].Possible
    THEN IF s.Simple_keys[Len(s.Simple_keys)].Required
         THEN [s EXCEPT !.err = ExpectedColon]
         ELSE [s EXCEPT !.Simple_keys[Len(s.Simple_keys)].Possible = FALSE,
                        !.Simple_keys_by_tok =
                            map_delete(@, s.Simple_keys[Len(s.Simple_keys)].Token_number)]
    ELSE s

yaml_parser_save_simple_key(s) ==
    IF ~s.Simple_key_allowed
    THEN s
    ELSE the({ IF u.err # "" THEN u
               ELSE [u EXCEPT !.Simple_keys[Len(u.Simple_keys)] =
                                  SimpleKey(TRUE, s.Flow_level = 0 /\ s.Indent = s.Mark.Column,
                                            s.Tokens_parsed + Len(s.Tokens), s.Mark, s.Made),
                              !.Simple_keys_by_tok =
                                  map_set(@, s.Tokens_parsed + Len(s.Tokens), Len(u.Simple_keys)),
                              !.Required_keys =
                                  IF s.Flow_level = 0 /\ s.Indent = s.Mark.Column
                                  THEN @ \cup {s.Mark.Index} ELSE @] :
               u \in {yaml_parser_remove_simple_key(s)} })

increase_flow_level_unchecked(s) ==
    [s EXCEPT !.Simple_keys =
                  Append(@, SimpleKey(FALSE, FALSE, s.Tokens_parsed + Len(s.Tokens), s.Mark, s.Made)),
              !.Flow_level = @ + 1]

yaml_parser_increase_flow_level(s) ==
    [s EXCEPT !.Simple_keys =
                  Append(@, SimpleKey(FALSE, FALSE, s.Tokens_parsed + Len(s.Tokens), s.Mark, s.Made)),
              !.Flow_level = @ + 1,
              !.err = IF s.Flow_level + 1 > max_flow_level
                      THEN newScannerError("exceeded max depth of 10000") ELSE @]

\* The level closed with the entry of its key left in the map.
decrease_flow_level_keeping_entry(s) ==
    IF s.Flow_level > 0
    THEN [s EXCEPT !.Flow_level = @ - 1,
                   !.Simple_keys = SubSeq(@, 1, Len(@) - 1)]
    ELSE s

yaml_parser_decrease_flow_level(s) ==
    IF s.Flow_level > 0
    THEN [s EXCEPT !.Flow_level = @ - 1,
                   !.Simple_keys_by_tok =
                       map_delete(@, s.Simple_keys[Len(s.Simple_keys)].Token_number),
                   !.Simple_keys = SubSeq(@, 1, Len(@) - 1)]
    ELSE s

yaml_parser_roll_indent(s, column, number, type, mark) ==
    IF s.Flow_level > 0 \/ ~(s.Indent < column)
    THEN s
    ELSE IF Len(s.Indents) + 1 > max_indents
    THEN [s EXCEPT !.Indents = Append(@, s.Indent), !.Indent = column,
                   !.err = newScannerError("exceeded max depth of 10000")]
    ELSE yaml_insert_token([s EXCEPT !.Indents = Append(@, s.Indent), !.Indent = column],
                           IF number > -1 THEN number - s.Tokens_parsed ELSE number,
                           type, mark.Index)

\* The levels popped with no BLOCK-END token made.
RECURSIVE unroll_indent_silently(_, _, _)
unroll_indent_silently(s, column, scan_mark) ==
    IF s.Flow_level > 0 \/ ~(s.Indent > column)
    THEN s
    ELSE unroll_indent_silently(
             [s EXCEPT !.Indent = s.Indents[Len(s.Indents)],
                       !.Indents = SubSeq(@, 1, Len(@) - 1)],
             column, scan_mark)

\* The BLOCK-END tokens start one before the scan mark (no comment is there
\* to move them to).
RECURSIVE yaml_parser_unroll_indent(_, _, _)
yaml_parser_unroll_indent(s, column, scan_mark) ==
    IF s.Flow_level > 0 \/ ~(s.Indent > column)
    THEN s
    ELSE yaml_parser_unroll_indent(
             [yaml_insert_token(s, -1, "BLOCK_END", scan_mark.Index - 1)
                 EXCEPT !.Indent = s.Indents[Len(s.Indents)],
                        !.Indents = SubSeq(@, 1, Len(@) - 1)],
             column, scan_mark)

fetch_stream_start(s) ==
    yaml_insert_token([s EXCEPT !.Indent = -1,
                                !.Simple_keys = Append(@, SimpleKey(FALSE, FALSE, 0, NoMark, 0)),
                                !.Simple_keys_by_tok = <<>>,
                                !.Simple_key_allowed = TRUE,
                                !.Stream_start_produced = TRUE],
                      -1, "STREAM_START", s.Mark.Index)

\* The token is made once the indentation is unrolled and the simple key of
\* the level removed.
stream_end_token(s) ==
    IF s.err # "" THEN s
    ELSE yaml_insert_token([s EXCEPT !.Simple_key_allowed = FALSE], -1, "STREAM_END", s.Mark.Index)

fetch_stream_end(s) ==
    stream_end_token(yaml_parser_remove_simple_key(yaml_parser_unroll_indent(
        IF s.Mark.Column # 0
        THEN [s EXCEPT !.Mark.Column = 0, !.Mark.Line = @ + 1]
        ELSE s, -1, s.Mark)))

document_indicator_token(s, type) ==
    IF s.err # "" THEN s
    ELSE yaml_insert_token(skip_n([s EXCEPT !.Simple_key_allowed = FALSE], 3),
                           -1, type, s.Mark.Index)

yaml_parser_fetch_document_indicator(s, type) ==
    document_indicator_token(
        yaml_parser_remove_simple_key(yaml_parser_unroll_indent(s, -1, s.Mark)), type)

flow_collection_start_token(s, type) ==
    IF s.err # "" THEN s
    ELSE yaml_insert_token(skip_n([s EXCEPT !.Simple_key_allowed = TRUE], 1),
                           -1, type, s.Mark.Index)

flow_collection_start_level(s) ==
    IF s.err # "" THEN s ELSE yaml_parser_increase_flow_level(s)

yaml_parser_fetch_flow_collection_start(s, type) ==
    flow_collection_start_token(
        flow_collection_start_level(yaml_parser_save_simple_key(s)), type)

flow_collection_end_token(s, type) ==
    IF s.err # "" THEN s
    ELSE yaml_insert_token(
             skip_n([yaml_parser_decrease_flow_level(s) EXCEPT !.Simple_key_allowed = FALSE], 1),
             -1, type, s.Mark.Index)

yaml_parser_fetch_flow_collection_end(s, type) ==
    flow_collection_end_token(yaml_parser_remove_simple_key(s), type)

block_entry_token(s) ==
    IF s.err # "" THEN s
    ELSE yaml_insert_token(skip_n([s EXCEPT !.Simple_key_allowed = TRUE], 1),
                           -1, "BLOCK_ENTRY", s.Mark.Index)

then_remove_simple_key(s) == IF s.err # "" THEN s ELSE yaml_parser_remove_simple_key(s)

yaml_parser_fetch_block_entry(s) ==
    IF s.Flow_level = 0
    THEN IF ~s.Simple_key_allowed
         THEN [s EXCEPT !.err =
                  newScannerError("block sequence entries are not allowed in this context")]
         ELSE block_entry_token(then_remove_simple_key(
                  yaml_parser_roll_indent(s, s.Mark.Column, -1, "BLOCK_SEQUENCE_START", s.Mark)))
    ELSE block_entry_token(yaml_parser_remove_simple_key(s))

key_token(s) ==
    IF s.err # "" THEN s
    ELSE yaml_insert_token(skip_n([s EXCEPT !.Simple_key_allowed = (s.Flow_level = 0)], 1),
                           -1, "KEY", s.Mark.Index)

yaml_parser_fetch_key(s) ==
    IF s.Flow_level = 0
    THEN IF ~s.Simple_key_allowed
         THEN [s EXCEPT !.err = newScannerError("mapping keys are not allowed in this context")]
         ELSE key_token(then_remove_simple_key(
                  yaml_parser_roll_indent(s, s.Mark.Column, -1, "BLOCK_MAPPING_START", s.Mark)))
    ELSE key_token(yaml_parser_remove_simple_key(s))

value_token(s) ==
    IF s.err # "" THEN s
    ELSE yaml_insert_token(skip_n(s, 1), -1, "VALUE", s.Mark.Index)

\* The simple key of the level is valid: u is the parser with the KEY token
\* inserted, key the simple key.
value_after_key(u, key) ==
    IF u.err # "" THEN u
    ELSE the({ IF w.err # "" THEN w
               ELSE [w EXCEPT !.Simple_keys[Len(w.Simple_keys)].Possible = FALSE,
                              !.Simple_keys_by_tok = map_delete(@, key.Token_number),
                              !.Simple_key_allowed = FALSE] :
               w \in {yaml_parser_roll_indent(u, key.Mark.Column, key.Token_number,
                                              "BLOCK_MAPPING_START", key.Mark)} })

\* What the insertion of a KEY token for a simple key is remembered by: the
\* marks of the key and of the ':', the place in the queue, and whether the
\* key's first token is in the queue at that place.
KeyInsertion(s, key) ==
    [from |-> key.Mark, at |-> s.Mark, pos |-> key.Token_number - s.Tokens_parsed,
     before |-> /\ key.Token_number - s.Tokens_parsed >= 0
                /\ key.Token_number - s.Tokens_parsed < Len(s.Tokens)
                /\ s.Tokens[key.Token_number - s.Tokens_parsed + 1].Id = key.First]

value_of_simple_key(s, key) ==
    value_after_key(
        yaml_insert_token([s EXCEPT !.Inserted = Append(@, KeyInsertion(s, key))],
                          key.Token_number - s.Tokens_parsed, "KEY", key.Mark.Index),
        key)

value_of_complex_key(s) ==
    IF s.Flow_level = 0
    THEN IF ~s.Simple_key_allowed
         THEN [s EXCEPT !.err = newScannerError("mapping values are not allowed in this context")]
         ELSE the({ IF u.err # "" THEN u ELSE [u EXCEPT !.Simple_key_allowed = TRUE] :
                    u \in {yaml_parser_roll_indent(s, s.Mark.Column, -1,
                                                   "BLOCK_MAPPING_START", s.Mark)} })
    ELSE [s EXCEPT !.Simple_key_allowed = FALSE]

fetch_value_of_possible_key(s) ==
    value_token(
        IF s.Simple_keys[Len(s.Simple_keys)].Possible
        THEN value_of_simple_key(s, s.Simple_keys[Len(s.Simple_keys)])
        ELSE value_of_complex_key(s))

yaml_parser_fetch_value(s) ==
    the({ value_token(
              IF r.p.err # "" THEN r.p
              ELSE IF r.valid
              THEN value_of_simple_key(r.p, r.p.Simple_keys[Len(r.p.Simple_keys)])
              ELSE value_of_complex_key(r.p)) :
          r \in {yaml_simple_key_is_valid(s, Len(s.Simple_keys))} })

\* The stop of the inner loop of yaml_parser_scan_plain_scalar at the n-th
\* character from the position.
word_stop(s, n) ==
    \/ Is_blankz(look(s, n))
    \/ look(s, n) = ":" /\ Is_blankz(look(s, n + 1))
    \/ s.Flow_level > 0 /\ look(s, n) \in {",", "?", "[", "]", "{", "}"}

word_run(s) ==
    CHOOSE n \in 0..(TextLen(s.input) - s.Mark.Index) :
        /\ word_stop(s, n)
        /\ \A m \in 0..(n - 1) : ~word_stop(s, m)

\* The blanks and line breaks after a word.
RECURSIVE scalar_blanks(_)
scalar_blanks(s) ==
    the({ IF Is_break(look(u, 0)) THEN scalar_blanks(skip_break(u)) ELSE u :
          u \in {skip_n(s, blanks_run(s))} })

document_start_here(s) ==
    /\ s.Mark.Column = 0
    /\ look(s, 0) = "-" /\ look(s, 1) = "-" /\ look(s, 2) = "-"
    /\ Is_blankz(look(s, 3))

\* The loop of yaml_parser_scan_plain_scalar; at its end the flag
\* Simple_key_allowed is set if a line break was passed.
RECURSIVE plain_scalar_loop(_, _, _)
plain_scalar_loop(s, indent, leading_blanks) ==
    IF document_start_here(s)
    THEN [s EXCEPT !.Simple_key_allowed = leading_blanks \/ @]
    ELSE the({ IF ~(Is_blank(look(u, 0)) \/ Is_break(look(u, 0)))
               THEN [u EXCEPT !.Simple_key_allowed = leading_blanks \/ @]
               ELSE the({ IF v.Flow_level = 0 /\ v.Mark.Column < indent
                          THEN [v EXCEPT !.Simple_key_allowed =
                                   leading_blanks \/ v.Mark.Line > u.Mark.Line \/ @]
                          ELSE plain_scalar_loop(v, indent,
                                   leading_blanks \/ v.Mark.Line > u.Mark.Line) :
                          v \in {scalar_blanks(u)} }) :
               u \in {skip_n(s, word_run(s))} })

yaml_parser_scan_plain_scalar(s) == plain_scalar_loop(s, s.Indent + 1, FALSE)

plain_scalar_token(s, start) ==
    yaml_insert_token(yaml_parser_scan_plain_scalar([s EXCEPT !.Simple_key_allowed = FALSE]),
                      -1, "SCALAR", start)

yaml_parser_fetch_plain_scalar(s) ==
    the({ IF u.err # "" THEN u ELSE plain_scalar_token(u, s.Mark.Index) :
          u \in {yaml_parser_save_simple_key(s)} })

RECURSIVE scan_to_next_token(_)
scan_to_next_token(s) ==
    the({ IF Is_break(look(u, 0))
          THEN scan_to_next_token(
                   [skip_break(u) EXCEPT !.Simple_key_allowed = (u.Flow_level = 0) \/ @])
          ELSE u :
          u \in {skip_n(s, blanks_run(s))} })

\* The characters a plain scalar cannot start with, the two quotes left out
\* (no text has them).
Indicators ==
    {"-", "?", ":", ",", "[", "]", "{", "}", "#", "&", "*", "!", "|", ">", "%", "@"}

\* The choice of the fetcher, once the blanks are passed and the indentation
\* is unrolled.
fetch_token_at(s) ==
    CASE Is_z(look(s, 0)) -> fetch_stream_end(s)
      [] ~Is_z(look(s, 0)) /\ document_start_here(s) ->
             yaml_parser_fetch_document_indicator(s, "DOCUMENT_START")
      [] OTHER ->
             CASE look(s, 0) = "[" ->
                      yaml_parser_fetch_flow_collection_start(s, "FLOW_SEQUENCE_START")
               [] look(s, 0) = "]" ->
                      yaml_parser_fetch_flow_collection_end(s, "FLOW_SEQUENCE_END")
               [] look(s, 0) = "-" /\ Is_blankz(look(s, 1)) -> yaml_parser_fetch_block_entry(s)
               [] look(s, 0) = "?" /\ (s.Flow_level > 0 \/ Is_blankz(look(s, 1))) ->
                      yaml_parser_fetch_key(s)
               [] look(s, 0) = ":" /\ (s.Flow_level > 0 \/ Is_blankz(look(s, 1))) ->
                      yaml_parser_fetch_value(s)
               [] OTHER ->
                      IF \/ ~(Is_blankz(look(s, 0)) \/ look(s, 0) \in Indicators)
                         \/ look(s, 0) = "-" /\ ~Is_blank(look(s, 1))
                         \/ s.Flow_level = 0 /\ look(s, 0) \in {"?", ":"}
                                /\ ~Is_blankz(look(s, 1))
                      THEN yaml_parser_fetch_plain_scalar(s)
                      ELSE [s EXCEPT !.err =
                               newScannerError("found character that cannot start any token")]

fetch_next_token(s) ==
    IF ~s.Stream_start_produced
    THEN fetch_stream_start(s)
    ELSE the({ fetch_token_at(yaml_parser_unroll_indent(u, u.Mark.Column, s.Mark)) :
               u \in {scan_to_next_token(s)} })

RECURSIVE yaml_parser_fetch_more_tokens(_)
yaml_parser_fetch_more_tokens(s) ==
    IF s.err # "" THEN s
    ELSE IF 0 < Len(s.Tokens) - 2
    THEN IF map_get(s.Simple_keys_by_tok, s.Tokens_parsed) = 0
         THEN [s EXCEPT !.Token_available = TRUE]
         ELSE IF map_get(s.Simple_keys_by_tok, s.Tokens_parsed) > Len(s.Simple_keys)
         THEN [s EXCEPT !.err = Panic]
         ELSE the({ IF r.p.err # "" THEN r.p
                    ELSE IF ~r.valid THEN [r.p EXCEPT !.Token_available = TRUE]
                    ELSE yaml_parser_fetch_more_tokens(fetch_next_token(r.p)) :
                    r \in {yaml_simple_key_is_valid(
                               [s EXCEPT !.Looked_up = @ \cup {map_get(s.Simple_keys_by_tok,
                                                                       s.Tokens_parsed)}],
                               map_get(s.Simple_keys_by_tok, s.Tokens_parsed))} })
    ELSE yaml_parser_fetch_more_tokens(fetch_next_token(s))

tokenizer_peek_token(s) ==
    IF ~s.Token_available THEN yaml_parser_fetch_more_tokens(s) ELSE s

IsBlockStart(type) == type \in {"BLOCK_SEQUENCE_START", "BLOCK_MAPPING_START"}

tokenizer_skip_token(s) ==
    [s EXCEPT !.Token_available = FALSE,
              !.Tokens_parsed = @ + 1,
              !.Stream_end_produced = (Head(s.Tokens).Type = "STREAM_END"),
              !.Tokens = Tail(@),
              !.Block_starts = IF IsBlockStart(Head(s.Tokens).Type) THEN @ + 1 ELSE @,
              !.Block_ends = IF Head(s.Tokens).Type = "BLOCK_END" THEN @ + 1 ELSE @,
              !.Unmatched_end = @ \/ (Head(s.Tokens).Type = "BLOCK_END"
                                        /\ s.Block_ends + 1 > s.Block_starts),
              !.Last_start = Head(s.Tokens).Start,
              !.Out_of_order = @ \/ (s.Tokens_parsed > 0 /\ Head(s.Tokens).Start < s.Last_start)]

\* peek_token and skip_token, as the parser calls them for each token; after
\* an error, or once STREAM-END is taken, it asks for no token.
take_token(s) ==
    IF s.err # "" \/ s.Stream_end_produced THEN s
    ELSE the({ IF u.err # "" THEN u ELSE tokenizer_skip_token(u) :
               u \in {tokenizer_peek_token(s)} })

\* The scanner once the parser has taken n tokens.
RECURSIVE take_tokens(_, _)
take_tokens(s, n) ==
    IF n = 0 THEN s
    ELSE IF n = 1 THEN take_token(s)
    ELSE the({ take_tokens(u, n - (n \div 2)) : u \in {take_tokens(s, n \div 2)} })

\* The deep texts are taken up where five levels are left to open: the
\* parser has taken STREAM-START and the tokens of the levels before.
DeepStart(text) ==
    take_tokens(TokenizerInit(text),
                1 + (text.times - DeepLeft) * (IF text.unit[1] = "-" THEN 2 ELSE 1))

\* ---------------------------------------------------------------------------
\* State and actions

vars == <<parser, last, errored, gram, stream, builder, result, decoder, resolve, binder, encoder, lexer, parse_calls, tokenizer, commented>>

ParserInit ==
    [State |-> "PARSE_STREAM_START_STATE", States |-> <<>>, Marks |-> 0,
     Tag_directives |-> {}, Tail_comment |-> "",
     Tokens |-> <<>>, Tokens_parsed |-> 0,
     Taken |-> <<>>, Flow_open |-> [seq |-> 0, map |-> 0], Directives_taken |-> 0,
     Stream_start_produced |-> FALSE, Stream_end_produced |-> FALSE,
     Eof |-> FALSE,           \* the scanner stands at the end of the input
     Fetch_error |-> FALSE,   \* the pending yaml_parser_fetch_more_tokens call fails
     Tokens_fetched |-> 0]

LastInit ==
    [kind |-> "none", type |-> "NO_EVENT", problem |-> "", after_error |-> FALSE,
     retries |-> 0]

ResultInit ==
    [kind |-> "none", node |-> NoNode, values |-> 0, failed |-> FALSE,
     ended |-> FALSE,     \* a call has returned nil: the stream had ended
     problem |-> "",      \* the message of the error the last call returned
     retries |-> 0]

Init ==
    /\ parser = ParserInit
    /\ last = LastInit
    /\ errored = FALSE
    /\ gram = GramInit
    /\ stream = StreamInit
    /\ builder = BuilderInit
    /\ result = ResultInit
    /\ decoder = newDecoder
    /\ resolve = ResolveInit
    /\ commented = CommentedIdle
    /\ tokenizer = TokenizerIdle
    /\ parse_calls = 0
    /\ lexer = ScannerIdle
    /\ encoder = EncoderInit
    /\ binder = MapDecoderIdle

Crashed == last.kind = "panic" \/ result.kind = "panic"

\* What the scanner does to the queue when asked for one more token.
Fetched(p) ==
    IF ~p.Stream_start_produced
    THEN { [p EXCEPT !.Tokens = Append(@, Tok("STREAM_START", "")),
                     !.Stream_start_produced = TRUE] }
    ELSE IF p.Eof \/ p.Tokens_fetched >= MaxTokens
    THEN { [p EXCEPT !.Tokens = Append(@, Tok("STREAM_END", "")), !.Eof = TRUE] }
    ELSE { [p EXCEPT !.Tokens = Append(@, t),
                     !.Tokens_fetched = @ + 1,
                     !.Eof = (t.Type = "STREAM_END")] : t \in ScannerTokens }
         \cup { [p EXCEPT !.Fetch_error = TRUE] }

\* A Parse call as its caller sees it: whenever peek_token finds no token
\* available, yaml_parser_fetch_more_tokens has the scanner fetch one (or fail)
\* and the call goes on.  The set holds one result for each thing the rest of
\* the input can turn out to be.
RECURSIVE ParseResults(_)

ParseResults(p) ==
    LET r == Parse(p) IN
    IF r.kind # "need" THEN {r}
    ELSE UNION { ParseResults(q) : q \in Fetched(p) }

\* The parser when a Parse call is entered: the call has taken no token yet.
Entered(p) == [p EXCEPT !.Taken = <<>>]

\* The parser with its monitors left as they were at the start: the
\* specifications that do not watch the tokens taken keep them so.
Unwatched(p) ==
    [p EXCEPT !.Taken = <<>>, !.Flow_open = [seq |-> 0, map |-> 0],
              !.Directives_taken = 0]

\* The bookkeeping of a Parse call that returned r and left the parser as p.
Kept(r, p) ==
    /\ r.kind # "need"
    /\ Len(r.p.States) <= MaxDepth
    /\ parser' = [p EXCEPT !.Fetch_error = FALSE]
    /\ last' = [kind |-> r.kind, type |-> r.event.Type, problem |-> r.problem,
                after_error |-> errored,
                retries |-> IF errored THEN last.retries + 1 ELSE 0]
    /\ errored' = (errored \/ r.kind = "error")
    /\ gram' = IF errored \/ r.kind # "event" THEN gram ELSE GramStep(gram, r.event)

\* The bookkeeping of a Parse call that returned r.
Returned(r) == Kept(r, Unwatched(r.p))

\* The caller asks the parser for the next event.
ParseCall ==
    /\ ~Crashed
    /\ last.retries < MaxRetries
    /\ \E r \in ParseResults(parser) : Returned(r)
    /\ UNCHANGED <<stream, builder, result, decoder, resolve, binder, encoder, lexer, parse_calls, tokenizer, commented>>

ResultOf(o) ==
    [kind |-> IF o.kind = "wait" THEN "running" ELSE o.kind,
     node |-> o.node,
     values |-> IF o.kind = "value" THEN result.values + 1 ELSE result.values,
     failed |-> result.failed \/ o.kind \in {"error", "panic"},
     ended |-> result.ended \/ o.kind = "nil",
     problem |-> o.problem,
     retries |-> result.retries]

\* A decode attempt: parser.parse() is called for the next document.
parse ==
    /\ ~Crashed
    /\ builder.frames = <<>>
    /\ result.retries < MaxRetries
    /\ LET o == run(push_parse(builder), FALSE, stream.docs)
           r == ResultOf(o)
       IN  /\ builder' = o.b
           /\ result' = [r EXCEPT !.retries = IF result.failed THEN @ + 1 ELSE @]
    /\ UNCHANGED <<parser, last, errored, gram, stream, decoder, resolve, binder, encoder, lexer, parse_calls, tokenizer, commented>>

\* parser.peek / parser.expect call Parse and the builder goes on with the answer.
peek ==
    /\ ~Crashed
    /\ builder.frames # <<>>
    /\ \E r \in ParseResults(parser) :
       /\ Returned(r)
       /\ stream' = IF r.kind = "event" THEN StreamStep(stream, r.event) ELSE stream
       /\ IF r.kind \in {"error", "panic"}
          THEN /\ builder' = [builder EXCEPT !.frames = <<>>]
               /\ result' = [result EXCEPT !.kind = r.kind, !.node = NoNode,
                                           !.failed = TRUE, !.problem = r.problem]
          ELSE LET docs == IF r.event.Type = "DOCUMENT_START"
                           THEN stream.docs + 1 ELSE stream.docs
                   o == run([builder EXCEPT !.event = BuilderEvent(r.event, stream)],
                            TRUE, docs)
               IN  /\ builder' = o.b
                   /\ result' = ResultOf(o)
    /\ UNCHANGED <<decoder, resolve, binder, encoder, lexer, parse_calls, tokenizer, commented>>

\* The model follows the parser no deeper than MaxDepth stacked states: a call
\* that would stack more ends the run.
TooDeep(r) ==
    /\ Len(r.p.States) > MaxDepth
    /\ last' = [last EXCEPT !.kind = "cut"]
    /\ UNCHANGED <<parser, errored, gram, tokenizer, commented>>

\* The caller can make a Parse call: it has got no error, and the run has not
\* been ended.
Calling == ~Crashed /\ ~errored /\ last.kind # "cut"

\* The caller asks the parser for the next event and stops at the first error;
\* the tokens the calls take are watched.
ParseWatched ==
    /\ Calling
    /\ \E r \in ParseResults(Entered(parser)) : Kept(r, r.p) \/ TooDeep(r)
    /\ parse_calls' = 1 - parse_calls
    /\ UNCHANGED <<stream, builder, result, decoder, resolve, binder, encoder, lexer, tokenizer, commented>>

\* What every Parse call that returns does to the count of the calls.
CallReturns == Calling /\ parse_calls' = 1 - parse_calls

NextWatched == ParseWatched

SpecWatched == Init /\ [][NextWatched]_vars

\* The caller goes on calling Parse while it has got no error, and every call
\* it makes returns: Parse has a result in every state (CallsReturn), so a
\* step of CallReturns is enabled exactly when one of ParseWatched is, and
\* the steps of SpecWatched that change parse_calls are those of ParseWatched.
FairSpecWatched == SpecWatched /\ WF_parse_calls(CallReturns)

NextParser == ParseCall

SpecParser == Init /\ [][NextParser]_vars

Next == parse \/ peek

Spec == Init /\ [][Next]_vars

\* A decoder that is to materialize one of the documents: d := newDecoder()
\* and the first d.unmarshal call, for the document node, is pending.
InitDecoder ==
    /\ parser = ParserInit
    /\ last = LastInit
    /\ errored = FALSE
    /\ gram = GramInit
    /\ stream = StreamInit
    /\ builder = BuilderInit
    /\ result = ResultInit
    /\ resolve = ResolveInit
    /\ commented = CommentedIdle
    /\ tokenizer = TokenizerIdle
    /\ parse_calls = 0
    /\ lexer = ScannerIdle
    /\ encoder = EncoderInit
    /\ binder = MapDecoderIdle
    /\ \E doc \in Documents : \E legacy \in SUBSET LegacySites(doc) :
           decoder = [newDecoder EXCEPT !.doc = doc, !.legacy = legacy,
                                        !.status = "running",
                                        !.call = Call(DocId, DocId \in legacy)]

\* One call of d.unmarshal, and the returns that follow it up to the next call.
unmarshal ==
    /\ decoder.status = "running"
    /\ decoder' = unmarshal_call(decoder)
    /\ UNCHANGED <<parser, last, errored, gram, stream, builder, result, resolve, binder, encoder, lexer, parse_calls, tokenizer, commented>>

NextDecoder == unmarshal

SpecDecoder == InitDecoder /\ [][NextDecoder]_vars

\* The calls are made by one goroutine, which runs on while it has a call to make.
FairSpecDecoder == SpecDecoder /\ WF_vars(unmarshal)

\* A mapping node is about to be decoded into a fresh target by a new decoder.
InitMapping ==
    /\ parser = ParserInit
    /\ last = LastInit
    /\ errored = FALSE
    /\ gram = GramInit
    /\ stream = StreamInit
    /\ builder = BuilderInit
    /\ result = ResultInit
    /\ decoder = newDecoder
    /\ resolve = ResolveInit
    /\ commented = CommentedIdle
    /\ tokenizer = TokenizerIdle
    /\ parse_calls = 0
    /\ lexer = ScannerIdle
    /\ encoder = EncoderInit
    /\ \E n \in ParentMappings("P") : \E target \in MTargets :
           binder = [MapDecoderIdle EXCEPT !.status = "ready", !.target = target, !.n = n,
                                           !.out = MakeMap(target, n)]

\* d.unmarshal(n, out) for the mapping node.
unmarshal_mapping ==
    /\ binder.status = "ready"
    /\ LET r == map_unmarshal(binder.d, binder.n, binder.out)
       IN  binder' = [binder EXCEPT !.status = "done", !.d = r.d, !.out = r.out,
                                    !.good = r.good, !.err = r.err]
    /\ UNCHANGED <<parser, last, errored, gram, stream, builder, result, decoder, resolve, encoder, lexer, parse_calls, tokenizer, commented>>

NextMapping == unmarshal_mapping

SpecMapping == InitMapping /\ [][NextMapping]_vars

InitScanner ==
    /\ parser = ParserInit
    /\ last = LastInit
    /\ errored = FALSE
    /\ gram = GramInit
    /\ stream = StreamInit
    /\ builder = BuilderInit
    /\ result = ResultInit
    /\ decoder = newDecoder
    /\ resolve = ResolveInit
    /\ commented = CommentedIdle
    /\ tokenizer = TokenizerIdle
    /\ parse_calls = 0
    /\ encoder = EncoderInit
    /\ binder = MapDecoderIdle
    /\ \E input \in Inputs, reads \in ReadSchedules : lexer = ScannerInit(input, reads)

\* yaml_parser_fetch_more_tokens asks for the next token.
FetchToken ==
    /\ lexer.err = ""
    /\ ~lexer.Stream_end_produced
    /\ lexer' = yaml_parser_fetch_next_token(lexer)
    /\ UNCHANGED <<parser, last, errored, gram, stream, builder, result, decoder, resolve, binder, encoder, parse_calls, tokenizer, commented>>

NextScanner == FetchToken

SpecScanner == InitScanner /\ [][NextScanner]_vars

InitTokens ==
    /\ parser = ParserInit
    /\ last = LastInit
    /\ errored = FALSE
    /\ gram = GramInit
    /\ stream = StreamInit
    /\ builder = BuilderInit
    /\ result = ResultInit
    /\ decoder = newDecoder
    /\ resolve = ResolveInit
    /\ commented = CommentedIdle
    /\ parse_calls = 0
    /\ encoder = EncoderInit
    /\ binder = MapDecoderIdle
    /\ lexer = ScannerIdle
    /\ \/ \E text \in ScanTexts(MaxText) : tokenizer = TokenizerInit(text)
       \/ \E text \in DeepTexts : tokenizer = DeepStart(text)

\* The parser takes the next token: peek_token, which fetches the tokens it
\* needs, and skip_token.  After an error no further token is asked for.
TakeToken ==
    /\ tokenizer.err = ""
    /\ ~tokenizer.Stream_end_produced
    /\ tokenizer' = take_token(tokenizer)
    /\ UNCHANGED <<parser, last, errored, gram, stream, builder, result, decoder, resolve, binder, encoder, lexer, parse_calls, commented>>

NextTokens == TakeToken

SpecTokens == InitTokens /\ [][NextTokens]_vars

\* Encode(v) is called on the Encoder; the k-th Write call it makes fails.
EncodeCall ==
    /\ encoder.calls < MaxCalls
    /\ encoder.last.err # DivideByZero
    /\ \E v \in EncodedValues, k \in 0..MaxFailAt :
        /\ k > 0 => encoder.errors < MaxWriteErrors
        /\ \E x \in {Encode(encoder_entered(encoder, k), v)} :
              encoder' = encoder_returned(encoder, x, "Encode")
    /\ UNCHANGED <<parser, last, errored, gram, stream, builder, result, decoder, resolve, binder, lexer, parse_calls, tokenizer, commented>>

\* SetIndent(spaces) is called on the Encoder.
SetIndentCall ==
    /\ encoder.calls < MaxCalls
    /\ encoder.last.err # DivideByZero
    /\ \E spaces \in IndentArgs :
        encoder' = [encoder EXCEPT
                      !.enc.emitter = SetIndent(@, spaces),
                      !.last = [op |-> "SetIndent", err |-> "", from |-> Len(encoder.w.out),
                                failed |-> FALSE, first |-> ~encoder.encoded],
                      !.calls = @ + 1]
    /\ UNCHANGED <<parser, last, errored, gram, stream, builder, result, decoder, resolve, binder, lexer, parse_calls, tokenizer, commented>>

\* Close is called on the Encoder; the k-th Write call it makes fails.
CloseCall ==
    /\ encoder.calls < MaxCalls
    /\ encoder.last.err # DivideByZero
    /\ \E k \in 0..MaxFailAt :
        /\ k > 0 => encoder.errors < MaxWriteErrors
        /\ \E x \in {Close(encoder_entered(encoder, k))} :
              encoder' = encoder_returned(encoder, x, "Close")
    /\ UNCHANGED <<parser, last, errored, gram, stream, builder, result, decoder, resolve, binder, lexer, parse_calls, tokenizer, commented>>

NextEmitter == EncodeCall \/ SetIndentCall \/ CloseCall

\* Encode(node) is called on the Encoder with a *yaml.Node; no Write call
\* fails.
EncodeNodeCall ==
    /\ encoder.calls < MaxNodeCalls
    /\ \E v \in NodeValues :
        \E x \in {Encode(encoder_entered(encoder, 0), v)} :
              encoder' = encoder_returned(encoder, x, "Encode")
    /\ UNCHANGED <<parser, last, errored, gram, stream, builder, result, decoder, resolve, binder, lexer, parse_calls, tokenizer, commented>>

NextNodes == EncodeNodeCall \/ CloseCall

\* parser.mapping is called at the MAPPING-START event of a mapping.
MappingCall ==
    /\ commented.pc = "idle"
    /\ \E n \in 0..MaxPairs : \E events \in CommentedMappings(n) :
          commented' = mapping_start(events)
    /\ UNCHANGED <<parser, last, errored, gram, stream, builder, result, decoder, resolve, binder, encoder, lexer, parse_calls, tokenizer>>

\* The loop of parser.mapping takes a key and a value.
MappingPair ==
    /\ commented.pc = "loop"
    /\ commented.events[1].Type # "MAPPING_END"
    /\ commented' = mapping_pair(commented)
    /\ UNCHANGED <<parser, last, errored, gram, stream, builder, result, decoder, resolve, binder, encoder, lexer, parse_calls, tokenizer>>

\* The loop of parser.mapping has met MAPPING-END and the function returns.
MappingEnd ==
    /\ commented.pc = "loop"
    /\ commented.events[1].Type = "MAPPING_END"
    /\ commented' = mapping_end(commented)
    /\ UNCHANGED <<parser, last, errored, gram, stream, builder, result, decoder, resolve, binder, encoder, lexer, parse_calls, tokenizer>>

NextComments == MappingCall \/ MappingPair \/ MappingEnd

SpecComments == Init /\ [][NextComments]_vars

SpecNodes == Init /\ [][NextNodes]_vars

SpecEmitter == Init /\ [][NextEmitter]_vars

\* An instance calls ShortTag: parser.node for the tag of an event, Resolve
\* for the tag of a scalar.
ShortTagCall ==
    /\ ~resolve.fatal
    /\ \E i \in 1..Instances : \E tag \in Tags :
          /\ resolve.inst[i].pc = "idle"
          /\ resolve' \in ShortTag(resolve, i, tag)
    /\ UNCHANGED <<parser, last, errored, gram, stream, builder, result, decoder, binder, encoder, lexer, parse_calls, tokenizer, commented>>

\* An instance calls LongTag: the encoding side, for the tag of a node.
LongTagCall ==
    /\ ~resolve.fatal
    /\ \E i \in 1..Instances : \E tag \in Tags :
          /\ resolve.inst[i].pc = "idle"
          /\ resolve' \in LongTag(resolve, i, tag)
    /\ UNCHANGED <<parser, last, errored, gram, stream, builder, result, decoder, binder, encoder, lexer, parse_calls, tokenizer, commented>>

\* shortTags[tag] = ... / longTags[tag] = ...: the assignment begins.
store ==
    /\ ~resolve.fatal
    /\ \E i \in 1..Instances :
          /\ resolve.inst[i].pc = "store"
          /\ resolve' \in Outcomes(resolve, i, resolve.inst[i].cache,
                 [resolve EXCEPT !.inst[i].pc = "storing",
                                 !.wrote[resolve.inst[i].cache] = @ \cup {i}])
    /\ UNCHANGED <<parser, last, errored, gram, stream, builder, result, decoder, binder, encoder, lexer, parse_calls, tokenizer, commented>>

\* The assignment is done.
stored ==
    /\ ~resolve.fatal
    /\ \E i \in 1..Instances :
          LET c == resolve.inst[i].cache
              t == resolve.inst[i].tag
          IN  /\ resolve.inst[i].pc = "storing"
              /\ resolve' =
                     [resolve EXCEPT ![c] = { kv \in @ : kv[1] # t }
                                               \cup {<<t, Converted(c, t)>>},
                                     !.inst[i].pc = "load"]
    /\ UNCHANGED <<parser, last, errored, gram, stream, builder, result, decoder, binder, encoder, lexer, parse_calls, tokenizer, commented>>

\* return shortTags[tag] / return longTags[tag]
load ==
    /\ ~resolve.fatal
    /\ \E i \in 1..Instances :
          LET c == resolve.inst[i].cache
              t == resolve.inst[i].tag
          IN  /\ resolve.inst[i].pc = "load"
              /\ resolve' \in Outcomes(resolve, i, c,
                     [resolve EXCEPT !.ret[i] = ValueOf(resolve[c], t),
                                     !.read[c] = @ \cup {i},
                                     !.inst[i] = Idle])
    /\ UNCHANGED <<parser, last, errored, gram, stream, builder, result, decoder, binder, encoder, lexer, parse_calls, tokenizer, commented>>

NextResolve == ShortTagCall \/ LongTagCall \/ store \/ stored \/ load

SpecResolve == Init /\ [][NextResolve]_vars

\* ---------------------------------------------------------------------------
\* The parser's event stream

\* C1: the events successive Parse calls return, up to STREAM-END or the first
\* error, are a prefix of STREAM-START (DOCUMENT-START node DOCUMENT-END)*
\* STREAM-END in which every node is a scalar, an alias or a properly nested
\* collection; when Parse reports the end of the stream the sequence is whole.
C1_EventGrammar ==
    /\ gram.phase # "bad"
    /\ (~errored /\ last.kind = "empty") => (gram.phase = "end" /\ gram.open = <<>>)

\* A whole stream with a collection in it has been returned.
C1_Witness ==
    /\ ~errored
    /\ gram.phase = "end"
    /\ last.type = "STREAM_END"
    /\ parser.Tokens_parsed >= 4

\* C8: once a Parse call has returned an error, no later Parse call on the
\* same parser returns an event.
C8_NoEventAfterError == last.after_error => last.kind # "event"

\* ---------------------------------------------------------------------------
\* The tree-builder

\* C2: every Mapping node the builder completes has an even number of
\* children, and between MAPPING-START and MAPPING-END the parser delivers the
\* nodes of a mapping, block or flow, in pairs of key and value.
C2_MappingPairs ==
    /\ builder.built.Kind = "Mapping" => builder.built.Len % 2 = 0
    /\ gram.pairs

\* A mapping with at least one pair has been built.
C2_Witness ==
    /\ builder.built.Kind = "Mapping"
    /\ builder.built.Len >= 2
    /\ ~errored

\* C3: the target of an alias is a node anchored in the same document; the
\* anchors of one document are not visible to the documents after it.
C3_AliasSameDocument ==
    \A i \in 1..Len(builder.aliases) :
        builder.aliases[i].Alias.Doc = builder.aliases[i].Doc

\* C9: the k-th value a stream yields is its k-th document; when the end of the
\* stream is reported every document has been yielded, and every attempt after
\* that reports the end again, with no error and no panic.
C9_ValuesThenEnd ==
    /\ (result.kind = "value" /\ ~result.failed) =>
            /\ result.node.Kind = "Document"
            /\ result.node.Doc = result.values
    /\ (result.kind = "nil" /\ ~result.failed) =>
            /\ result.values = stream.docs
            /\ gram.phase = "end"
    /\ result.ended => result.kind = "nil"

\* The end of a stream of two documents has been reported.
C9_Witness ==
    /\ result.kind = "nil"
    /\ ~result.failed
    /\ result.values = 2

\* C10: the target of an alias is the node anchored most recently under its
\* name earlier in the event stream, and binding the name again later leaves
\* the target of an alias made before unchanged.
C10_AliasLatestAnchor ==
    \A i \in 1..Len(builder.aliases) :
        /\ builder.aliases[i].Bound # 0
        /\ builder.aliases[i].Alias.id = builder.aliases[i].Bound

\* An alias has been resolved after its name was bound twice.
C10_Witness ==
    \E i \in 1..Len(builder.aliases) :
        /\ builder.aliases[i].Bound = 2
        /\ builder.aliases[i].Alias.id = 2

\* C11: an alias event whose name is bound to no anchor when the event is met
\* (a name that is bound only later in the document included) makes the call
\* fail with "yaml: unknown anchor 'X' referenced", and no Alias node is ever
\* made without a target.
C11_UnknownAnchorFails ==
    /\ (builder.event.Type = "ALIAS" /\ builder.event.bound = 0) =>
            /\ result.kind = "error"
            /\ result.problem =
                   "yaml: unknown anchor '" \o builder.event.Anchor \o "' referenced"
    /\ \A i \in 1..Len(builder.aliases) : builder.aliases[i].Alias # NilRef

\* An alias of a name that no event had anchored was met inside a document and
\* the call failed with the unknown-anchor error.
C11_Witness ==
    /\ builder.event.Type = "ALIAS"
    /\ builder.event.bound = 0
    /\ stream.docs >= 1
    /\ result.kind = "error"
    /\ result.problem = "yaml: unknown anchor 'a' referenced"

\* ---------------------------------------------------------------------------
\* The decoder

\* C4: at a decode step that finds alias_count > 100, decode_count > 1000 and
\* alias_count / decode_count above the allowed ratio, decoding fails with the
\* error "yaml: document contains excessive aliasing" and materializes nothing more.
C4_ExcessiveAliasingFails ==
    decoder.tripped =>
        /\ decoder.status = "done"
        /\ decoder.err.msg = "yaml: document contains excessive aliasing"

\* C5: materializing a document comes to an end, and a document whose anchored
\* node holds an alias of itself fails with the error that the anchor's value
\* contains itself.
C5_SelfContainingFails ==
    (decoder.doc = "self" /\ decoder.status = "done") =>
        decoder.err.msg = "yaml: anchor '%s' value contains itself"

\* Every materialization comes to an end.
DecodingTerminates == <>(decoder.status = "done")

\* C6: the first error that is no type error is the error the decoder
\* returns, also when it is raised inside a legacy UnmarshalYAML callback.
C6_FirstErrorReturned ==
    decoder.first # NoErr =>
        /\ decoder.status = "done"
        /\ decoder.err = decoder.first

\* Without legacy unmarshalers the three hold.
DecoderErrorsWithoutLegacy ==
    decoder.legacy = {} =>
        /\ C4_ExcessiveAliasingFails
        /\ C5_SelfContainingFails
        /\ C6_FirstErrorReturned

\* ---------------------------------------------------------------------------
\* The decoder's mappings

\* The value of the "<<" entry of a mapping (Kind "" if it has none).
MergeOf(n) ==
    IF \E i \in 1..Len(n.Content) : isMerge(n.Content[i])
    THEN n.Content[CHOOSE i \in 1..Len(n.Content) : isMerge(n.Content[i])].val
    ELSE [Kind |-> ""]

RECURSIVE SourcesOf(_)

\* The mappings a merge value brings in, in the order in which they are listed;
\* a source's own merge sources come right after it.
SourcesOf(v) ==
    CASE v.Kind = "Mapping" -> <<v>> \o SourcesOf(MergeOf(v))
      [] v.Kind = "Alias" -> SourcesOf(v.Alias)
      [] v.Kind = "Sequence" ->
            IF v.Content = <<>> THEN <<>>
            ELSE SourcesOf(Head(v.Content)) \o SourcesOf(SequenceNode(Tail(v.Content)))
      [] OTHER -> <<>>

\* The mapping has an explicit entry whose key is k in a map of key type kt.
Defines(n, k, kt) ==
    \E i \in 1..Len(n.Content) :
        ~isMerge(n.Content[i]) /\ scalar_key(n.Content[i].Value, kt) = k

\* A mapping with a merge key has been decoded with no error.
MergeDecoded ==
    /\ binder.status = "done"
    /\ binder.err = ""
    /\ binder.d.typeErrors = <<>>
    /\ MergeOf(binder.n).Kind # ""

\* C12: in the map decoded from a mapping with a "<<" key, each key's value
\* comes from the mapping's own entry if it has one, otherwise from the first
\* merge source, in listed order, that defines the key.
C12_MergeFillsAbsentKeys ==
    MergeDecoded =>
        LET owners == <<binder.n>> \o SourcesOf(MergeOf(binder.n))
            kt == binder.out.kt
        IN  \A x \in binder.out.m :
                \E i \in 1..Len(owners) :
                    /\ Defines(owners[i], x.k, kt)
                    /\ \A j \in 1..(i - 1) : ~Defines(owners[j], x.k, kt)
                    /\ x.from.at = owners[i].at

\* The same for an interface{} target, whose map takes the keys as resolved.
MergeFillsAbsentKeysOfInterface ==
    (MergeDecoded /\ binder.target = "interface{}") =>
        LET owners == <<binder.n>> \o SourcesOf(MergeOf(binder.n))
            kt == binder.out.kt
        IN  \A x \in binder.out.m :
                \E i \in 1..Len(owners) :
                    /\ Defines(owners[i], x.k, kt)
                    /\ \A j \in 1..(i - 1) : ~Defines(owners[j], x.k, kt)
                    /\ x.from.at = owners[i].at

\* C13: with the decoder's defaults, decoding a mapping in which two keys are
\* equal (they are one key of the decoded map) reports a type error that names
\* the key and the line on which it was first defined.
C13_DuplicateKeysRejected ==
    binder.status = "done" =>
        \A i, j \in 1..Len(binder.n.Content) :
            LET ni == binder.n.Content[i]
                nj == binder.n.Content[j]
            IN  (/\ i < j
                 /\ scalar_key(ni.Value, binder.out.kt) = scalar_key(nj.Value, binder.out.kt)
                 /\ \A h \in 1..(i - 1) : scalar_key(binder.n.Content[h].Value, binder.out.kt)
                                             # scalar_key(ni.Value, binder.out.kt))
                => \E e \in 1..Len(binder.d.typeErrors) :
                       /\ binder.d.typeErrors[e].key = nj.Value
                       /\ binder.d.typeErrors[e].first = ni.Line

\* Two keys written alike are rejected, with a type error that names the key,
\* its line and the line of the first key written so.
DuplicateTextsRejected ==
    binder.status = "done" =>
        \A i, j \in 1..Len(binder.n.Content) :
            LET ni == binder.n.Content[i]
                nj == binder.n.Content[j]
            IN  (/\ i < j
                 /\ ni.Value = nj.Value
                 /\ \A h \in 1..(i - 1) : binder.n.Content[h].Value # ni.Value)
                => /\ ~binder.good
                   /\ binder.out.m = {}
                   /\ \E e \in 1..Len(binder.d.typeErrors) :
                          binder.d.typeErrors[e] =
                              [line |-> nj.Line, key |-> nj.Value, first |-> ni.Line]

\* ---------------------------------------------------------------------------
\* The resolver's tag caches

\* C7: instances that work in parallel share no mutable state: no instance
\* writes a memory location that another instance reads or writes, and none
\* of them brings the program down.
C7_NoSharedMutableState ==
    /\ \A c \in Caches : \A i, j \in 1..Instances :
           (i # j /\ i \in resolve.wrote[c]) =>
               j \notin (resolve.read[c] \cup resolve.wrote[c])
    /\ ~resolve.fatal

\* ---------------------------------------------------------------------------
\* The emitter and the Encoder

EncoderOutput == encoder.w.out

\* C14: the emitter hands the events to its state machine strictly in the
\* order in which they were passed to Emit, each of them exactly once, however
\* many of them are held back for lookahead.
C14_EventsInOrderOnce ==
    \A i \in 1..Len(encoder.w.processed) : encoder.w.processed[i] = i


\* The events are handed over in order, each once, as long as no call has
\* returned an error.
EventsInOrderOnceWithoutError ==
    encoder.clean => C14_EventsInOrderOnce


\* C15: whenever output is written the emitter's indent is within [2,9], for
\* any sequence of SetIndent and Encode calls, SetIndent after the stream has
\* started included.
C15_IndentWithinBounds ==
    EncoderOutput # <<>> => encoder.w.indentAtWrite \in 2..9

\* The indent is within [2,9] at every write made before SetIndent is called
\* on a started stream.
IndentWithinBoundsAtStreamStart ==
    encoder.last.op = "Encode" /\ encoder.last.first /\ EncoderOutput # <<>>
        => encoder.w.indentAtWrite \in 2..9

RECURSIVE ColumnAfter(_, _)

\* The column the line has reached after the i-th chunk of the output.
ColumnAfter(out, i) ==
    IF i = 0 \/ out[i].s = "\n" THEN 0 ELSE ColumnAfter(out, i - 1) + out[i].n

\* C16: with the default width a plain scalar is folded at a space once the
\* line is longer than 80 columns: no space between two words is written
\* beyond column 80.
C16_FoldedAtDefaultWidth ==
    \A i \in 1..(Len(EncoderOutput) - 1) :
        EncoderOutput[i] = [s |-> " ", n |-> 1] /\ EncoderOutput[i + 1].s = "w"
            => ColumnAfter(EncoderOutput, i - 1) <= 80

\* C16 as amended: by default the preferred width is unbounded and a plain
\* scalar is written on one line however long it is: no line break stands
\* between two words of the output, with or without indentation after it.
C16_NotFoldedByDefault ==
    /\ encoder.enc.started => encoder.enc.emitter.width = 2147483647
    /\ \A i \in 1..(Len(EncoderOutput) - 2) :
           EncoderOutput[i].s = "w" /\ EncoderOutput[i + 1].s = "\n" =>
               /\ EncoderOutput[i + 2].s # "w"
               /\ EncoderOutput[i + 2].s = " " /\ i + 3 <= Len(EncoderOutput)
                      => EncoderOutput[i + 3].s # "w"

C16_Witness ==
    \E i \in 1..(Len(EncoderOutput) - 2) :
        /\ EncoderOutput[i] = [s |-> "w", n |-> 90]
        /\ ColumnAfter(EncoderOutput, i) > 80
        /\ EncoderOutput[i + 1] = [s |-> " ", n |-> 1]
        /\ EncoderOutput[i + 2] = [s |-> "w", n |-> 5]

\* What the call that returned last has written.
LastSegment == SubSeq(EncoderOutput, encoder.last.from + 1, Len(EncoderOutput))

\* C17: of the values encoded on one Encoder the first document is not
\* preceded by "---", and each later one is preceded by exactly one line "---".
C17_DocumentSeparators ==
    encoder.last.op = "Encode" /\ encoder.last.err = "" =>
        LET seg == LastSegment
            sep == {i \in DOMAIN seg : seg[i].s = "---"}
        IN  IF encoder.last.first THEN sep = {}
            ELSE \E i \in sep :
                    /\ sep = {i}
                    /\ i < Len(seg) /\ seg[i + 1].s = "\n"
                    /\ \A j \in 1..(i - 1) : seg[j].s = "\n"
                    /\ encoder.last.from + i > 1
                    /\ EncoderOutput[encoder.last.from + i - 1].s = "\n"

C17_Witness ==
    /\ encoder.last.op = "Encode" /\ encoder.last.err = "" /\ ~encoder.last.first
    /\ \E i \in DOMAIN LastSegment : LastSegment[i].s = "---"
    /\ EncoderOutput[1].s # "---"

\* C18: Close never writes the document end marker "...".
C18_CloseWritesNoEndMarker ==
    encoder.last.op = "Close" => \A i \in DOMAIN LastSegment : LastSegment[i].s # "..."

C18_Witness ==
    /\ encoder.last.op = "Close" /\ encoder.last.err = ""
    /\ encoder.enc.emitter.state = "emitEndState"
    /\ EncoderOutput = <<[s |-> "x", n |-> 1], [s |-> "\n", n |-> 0]>>

\* C19: a call in which the writer returned an error fails with
\* "yaml: write error: " followed by the writer's message.
C19_WriteErrorReported ==
    encoder.last.failed => encoder.last.err = "yaml: write error: " \o WriterError

C19_Witness ==
    /\ encoder.last.op = "Encode" /\ encoder.last.failed
    /\ encoder.last.err = "yaml: write error: some write error"

\* ---------------------------------------------------------------------------
\* The reader

\* C20: when the byte source has returned an error other than the end of
\* input, scanning has stopped with the error "yaml: input error: " followed
\* by the source's message.
C20_InputErrorAborts ==
    lexer.readFailed => lexer.err = "yaml: input error: " \o ReadError

\* When the input holds no comment, an error of the source ends the scanning
\* with the input error.
InputErrorAbortsWithoutComments ==
    (\A i \in DOMAIN lexer.input : lexer.input[i] # "#") => C20_InputErrorAborts

\* ---------------------------------------------------------------------------
\* The tokens the parser takes

\* The types of the tokens the call that has just returned took.
TakenTypes(p) == { p.Taken[i].Type : i \in DOMAIN p.Taken }

\* C22: in a flow sequence an entry introduced by KEY is parsed as a mapping of
\* one pair, for every form of KEY node? (VALUE node?)?: after MAPPING-START
\* the call for the key takes no token that ends the key (VALUE, "," or "]"),
\* the call for the value takes VALUE at most, and the last call returns
\* MAPPING-END, takes nothing and hands over to the enclosing sequence.
C22_FlowSequenceKeyEntry ==
    [][ last'.kind = "event" =>
        /\ parser.State = "PARSE_FLOW_SEQUENCE_ENTRY_MAPPING_KEY_STATE" =>
             TakenTypes(parser') \cap {"VALUE", "FLOW_ENTRY", "FLOW_SEQUENCE_END"} = {}
        /\ parser.State = "PARSE_FLOW_SEQUENCE_ENTRY_MAPPING_VALUE_STATE" =>
             TakenTypes(parser') \cap {"FLOW_ENTRY", "FLOW_SEQUENCE_END"} = {}
        /\ parser.State = "PARSE_FLOW_SEQUENCE_ENTRY_MAPPING_END_STATE" =>
             /\ last'.type = "MAPPING_END"
             /\ parser'.Taken = <<>>
             /\ parser'.State = "PARSE_FLOW_SEQUENCE_ENTRY_STATE" ]_vars

\* The same for the entries whose key is there: the token after KEY starts a
\* node.
FlowSequenceKeyEntryWithKey ==
    [][ (last'.kind = "event"
         /\ ~(parser.State = "PARSE_FLOW_SEQUENCE_ENTRY_MAPPING_KEY_STATE"
              /\ parser'.Taken # <<>>
              /\ parser'.Taken[1].Type \in {"VALUE", "FLOW_ENTRY", "FLOW_SEQUENCE_END"})) =>
        /\ parser.State = "PARSE_FLOW_SEQUENCE_ENTRY_MAPPING_KEY_STATE" =>
             TakenTypes(parser') \cap {"VALUE", "FLOW_ENTRY", "FLOW_SEQUENCE_END"} = {}
        /\ parser.State = "PARSE_FLOW_SEQUENCE_ENTRY_MAPPING_VALUE_STATE" =>
             TakenTypes(parser') \cap {"FLOW_ENTRY", "FLOW_SEQUENCE_END"} = {}
        /\ parser.State = "PARSE_FLOW_SEQUENCE_ENTRY_MAPPING_END_STATE" =>
             /\ last'.type = "MAPPING_END"
             /\ parser'.Taken = <<>>
             /\ parser'.State = "PARSE_FLOW_SEQUENCE_ENTRY_STATE" ]_vars

\* C23: when the input has been parsed to STREAM-END without an error, the
\* parser has taken as many FLOW-SEQUENCE-END tokens as FLOW-SEQUENCE-START
\* tokens, and as many FLOW-MAPPING-END tokens as FLOW-MAPPING-START tokens.
C23_FlowIndicatorsBalanced ==
    (~errored /\ last.kind = "event" /\ last.type = "STREAM_END") =>
        parser.Flow_open = [seq |-> 0, map |-> 0]

\* C24: once Parse has returned STREAM-END, every further Parse call returns
\* the empty event and no error, and leaves the parser, its token queue and
\* the count of the tokens taken as they were.
C24_EmptyAfterStreamEnd ==
    [][ ((last.kind = "event" /\ last.type = "STREAM_END") \/ last.kind = "empty") =>
            (last'.kind = "empty" /\ last'.problem = "" /\ parser' = parser) ]_vars

\* A second call after STREAM-END has returned the empty event.
C24_Witness ==
    /\ last.kind = "empty"
    /\ ~errored
    /\ parser.Stream_end_produced
    /\ parser.State = "PARSE_END_STATE"
    /\ gram.phase = "end"

\* The handles of the %TAG directives the call that has just returned took.
DeclaredBy(p) ==
    { p.Taken[i].Value : i \in { j \in DOMAIN p.Taken : p.Taken[j].Type = "TAG_DIRECTIVE" } }

\* The handles of the TAG tokens the call that has just returned took.
HandlesUsedBy(p) ==
    { p.Taken[i].Value : i \in { j \in DOMAIN p.Taken : p.Taken[j].Type = "TAG" } }

\* C26: the table of the %TAG directives is per document.  When a document
\* starts the table holds the two default handles and the handles this
\* document's own directives declare, none of an earlier document; it stays so
\* up to the document's end; a directive fails as a duplicate only when this
\* document has declared its handle before; and a tag fails with "found
\* undefined tag handle" exactly when its handle is not in that table (unless
\* the scanner fails at the token after the tag).
C26_TagDirectivesPerDocument ==
    [][ /\ (last'.kind = "event" /\ last'.type = "DOCUMENT_START") =>
               parser'.Tag_directives = DeclaredBy(parser') \cup DefaultTagDirectives
        /\ (last'.kind = "event" /\ last'.type \notin {"DOCUMENT_START", "DOCUMENT_END"}) =>
               parser'.Tag_directives = parser.Tag_directives
        /\ last'.problem = "found duplicate %TAG directive" =>
               /\ peek_token(parser').Type = "TAG_DIRECTIVE"
               /\ peek_token(parser').Value \in DeclaredBy(parser')
        /\ (HandlesUsedBy(parser') # {} /\ last'.problem # "scanner error") =>
               (last'.problem = "found undefined tag handle"
                    <=> ~(HandlesUsedBy(parser') \subseteq parser.Tag_directives)) ]_vars

\* A document has declared the handle !e!, and a tag of the next document that
\* uses the handle has failed as undefined.
C26_Witness ==
    /\ last.problem = "found undefined tag handle"
    /\ HandlesUsedBy(parser) = {"!e!"}
    /\ parser.Directives_taken = 1

\* A second document has declared the handle !e! again and has started.
DeclaredAgain ==
    /\ last.kind = "event" /\ last.type = "DOCUMENT_START"
    /\ DeclaredBy(parser) = {"!e!"}
    /\ parser.Directives_taken = 2


\* The parser has returned STREAM-END or an error, or the call has panicked.
ParsingEnded ==
    \/ errored
    \/ Crashed
    \/ (last.kind = "event" /\ last.type = "STREAM_END")

CallsReturn ==
    Calling => \E r \in ParseResults(Entered(parser)) : r.kind # "need"


\* ---------------------------------------------------------------------------
\* The scanner's simple keys, indentation and depth

\* C30: whenever the scanner inserts a KEY token (and with it a
\* BLOCK-MAPPING-START token) for a simple key, the first token of the key is
\* still in the queue, at the place where the KEY token is put: no token that
\* may yet turn out to start a simple key has been handed to the parser, and
\* the parser sees the inserted tokens before the key.
C30_KeyBeforeItsToken ==
    \A i \in DOMAIN tokenizer.Inserted : tokenizer.Inserted[i].before

\* The same for the keys that are not flow collections: their first token is
\* a scalar, which saves the key at its own level.
ScalarKeyBeforeItsToken ==
    \A i \in DOMAIN tokenizer.Inserted :
        TextAt(tokenizer.input, tokenizer.Inserted[i].from.Index + 1) # "["
            => tokenizer.Inserted[i].before

\* C28: a KEY token is inserted for a simple key only if the ':' stands on
\* the line on which the key starts, at most 1024 characters after the start
\* of the key.
C28_KeyWithinReach ==
    \A i \in DOMAIN tokenizer.Inserted :
        /\ tokenizer.Inserted[i].from.Line = tokenizer.Inserted[i].at.Line
        /\ tokenizer.Inserted[i].at.Index - tokenizer.Inserted[i].from.Index <= KeyReach

\* A KEY token was inserted for a key whose ':' is 1024 characters after its
\* start.
C28_Witness ==
    /\ tokenizer.err = ""
    /\ \E i \in DOMAIN tokenizer.Inserted :
           tokenizer.Inserted[i].at.Index - tokenizer.Inserted[i].from.Index = KeyReach

\* The required keys that were saved and have had no KEY token inserted.
PendingKeys(s) ==
    { k \in s.Required_keys : \A i \in DOMAIN s.Inserted : s.Inserted[i].from.Index # k }

StreamEndTaken(s) == s.err = "" /\ s.Stream_end_produced

\* C27: if a simple key is required and no ':' follows it on its line
\* within 1024 characters, scanning fails with "could not find expected ':'";
\* a required key is never silently dropped or taken as a plain value.  So
\* no scan hands STREAM-END to the parser without an error while a required
\* key has had no KEY token inserted for it, and the error is that of such a
\* key.
C27_RequiredKeyNeverDropped ==
    /\ StreamEndTaken(tokenizer) => PendingKeys(tokenizer) = {}
    /\ tokenizer.err = ExpectedColon => PendingKeys(tokenizer) # {}

\* The scan has failed at a required key whose line has ended with no ':'.
RequiredKeyLineEnded ==
    /\ tokenizer.err = ExpectedColon
    /\ PendingKeys(tokenizer) # {}
    /\ \A k \in PendingKeys(tokenizer) : tokenizer.Mark.Index > k
    /\ \E k \in PendingKeys(tokenizer) : TextAt(tokenizer.input, k + 1) = "a"
    /\ ~tokenizer.Stream_end_produced

\* The same for a required key whose ':' comes on its line, 1025 characters
\* after its start.
RequiredKeyOutOfReach ==
    /\ tokenizer.err = ExpectedColon
    /\ tokenizer.Mark.Line = 1
    /\ \E k \in PendingKeys(tokenizer) : tokenizer.Mark.Index = k + KeyReach + 1

BlocksMatched(s) ==
    /\ s.Block_starts = s.Block_ends
    /\ ~s.Unmatched_end
    /\ s.Indents = <<>>
    /\ s.Indent = -1

\* C29 as stated: in every token stream scanned without error up to
\* STREAM-END, each BLOCK-SEQUENCE-START or BLOCK-MAPPING-START token is
\* matched by one later BLOCK-END token, and when STREAM-END is produced the
\* indent stack is empty and the indent is -1.
C29_BlocksMatched ==
    StreamEndTaken(tokenizer) => BlocksMatched(tokenizer)

\* C29, amended: the same of the token streams scanned without error up to
\* STREAM-END that leave no flow collection open (the flow level is 0 at the
\* end of the stream).
C29_BlocksMatchedOutsideFlow ==
    /\ ~tokenizer.Unmatched_end
    /\ (StreamEndTaken(tokenizer) /\ tokenizer.Flow_level = 0) => BlocksMatched(tokenizer)

\* A stream with two block collections, one in the other, has ended.
C29_Witness ==
    /\ StreamEndTaken(tokenizer)
    /\ tokenizer.Flow_level = 0
    /\ tokenizer.Block_starts = 2
    /\ tokenizer.Block_ends = 2

DepthError == newScannerError("exceeded max depth of 10000")

IndentDepthExceeded ==
    /\ tokenizer.err = DepthError
    /\ Len(tokenizer.Indents) = max_indents + 1
    /\ tokenizer.Flow_level = 0

\* Each state with 10,000 levels open and no error is one the scan goes on
\* from.
FullDepthReached ==
    /\ tokenizer.err = ""
    /\ tokenizer.Flow_level = max_flow_level

\* C31: tokens are delivered to the parser in byte order of the input: of any
\* two tokens taken one after the other, the later one does not start before
\* the earlier one, the inserted KEY, BLOCK-SEQUENCE-START,
\* BLOCK-MAPPING-START and BLOCK-END tokens included.
C31_TokensInByteOrder == ~tokenizer.Out_of_order

\* C40: every entry of Simple_keys_by_tok that is looked up refers to an
\* existing slot of Simple_keys: the lookup made for the head token never
\* indexes past the end of the stack, and the entry of the token at the head
\* of the queue, if there is one, is in range.
C40_LookupInRange ==
    /\ tokenizer.err # Panic
    /\ map_get(tokenizer.Simple_keys_by_tok, tokenizer.Tokens_parsed) <= Len(tokenizer.Simple_keys)

\* The lookups have found the key of a flow collection's level, the
\* collection is closed, and the stream has ended.
C40_Witness ==
    /\ StreamEndTaken(tokenizer)
    /\ tokenizer.Flow_level = 0
    /\ 2 \in tokenizer.Looked_up

\* C39: after the reader's yaml_parser_update_buffer(length) returns nil, the
\* scanner can read length characters at the read position without leaving
\* the buffer: the buffer holds at least that many bytes from Buffer_pos on,
\* and what it holds past the end of the input is NUL, also when the end of
\* the input had been reached by an earlier call.
C39_BufferHoldsLength ==
    /\ ~lexer.Short
    /\ \A i \in DOMAIN lexer.buf :
           lexer.buf[i] = "0" =>
               /\ lexer.Eof /\ lexer.raw = <<>> /\ lexer.src = <<>>
               /\ \A j \in i..Len(lexer.buf) : lexer.buf[j] = "0"

\* A call made after the end of the input was reached has returned nil and
\* has filled the buffer up; the input was not empty.
C39_Witness ==
    /\ lexer.Late
    /\ lexer.err = ""
    /\ lexer.pad > 0
    /\ lexer.input # <<>>
\* C32: the emitter holds back at most two events of lookahead: an Emit call
\* that returns nil never leaves the head event and two further events in the
\* queue.
C32_TwoEventsHeld == encoder.w.held <= 2

\* C32 as amended: the emitter holds back at most three events of lookahead:
\* an Emit call that returns nil never leaves the head event and three
\* further events in the queue.
C32_ThreeEventsHeld == encoder.w.held <= 3

\* A MAPPING-START was held back with the two events that followed it.
C32_Witness ==
    /\ encoder.w.held = 3
    /\ encoder.last.op = "Encode" /\ encoder.last.err = ""
    /\ \E i \in DOMAIN EncoderOutput : EncoderOutput[i].s = ":"

\* C33: when Close has returned nil after calls that all returned nil (the
\* events passed are a well-formed sequence), no event passed to the emitter
\* is left unprocessed in its queue, every event has been handed to the state
\* machine, and the emitter is in its end state.
C33_CloseLeavesNothing ==
    encoder.last.op = "Close" /\ encoder.clean =>
        /\ encoder.enc.emitter.eventsHead = Len(encoder.enc.emitter.eventsQueue)
        /\ \A n \in 1..encoder.enc.sent :
               \E i \in DOMAIN encoder.w.processed : encoder.w.processed[i] = n
        /\ encoder.enc.emitter.state = "emitEndState"

\* Close has returned nil after two documents, the second a mapping.
C33_Witness ==
    /\ encoder.last.op = "Close" /\ encoder.clean /\ encoder.calls = 3
    /\ encoder.w.held = 3
    /\ encoder.enc.sent > 8
    /\ \E i \in DOMAIN EncoderOutput : EncoderOutput[i].s = "---"

\* C34: once the emitter has processed STREAM-END, a later Encode or Close
\* call writes nothing to the output and fails with "expected nothing after
\* STREAM-END", and the emitter stays in its end state.
C34_NothingAfterStreamEnd ==
    [][encoder.enc.emitter.state = "emitEndState" /\ encoder'.last.op \in {"Encode", "Close"}
          => /\ encoder'.w.out = encoder.w.out
             /\ encoder'.last.err = "expected nothing after STREAM-END"
             /\ encoder'.enc.emitter.state = "emitEndState"]_vars

\* An Encode call made after a Close that returned nil has failed, and the
\* output is the one document written before.
C34_Witness ==
    /\ encoder.last.op = "Encode"
    /\ encoder.last.err = "expected nothing after STREAM-END"
    /\ encoder.enc.emitter.state = "emitEndState"
    /\ encoder.calls = 3
    /\ EncoderOutput = <<[s |-> "x", n |-> 1], [s |-> "\n", n |-> 0]>>

\* C35: Close returns nil when every call made before it returned nil and
\* none of them was a Close, whether or not a value was encoded, unless a
\* Write call fails in it.
C35_CloseReturnsNil ==
    [][(/\ encoder.clean /\ encoder.enc.emitter.state # "emitEndState"
        /\ encoder'.last.op = "Close" /\ encoder'.calls = encoder.calls + 1
        /\ ~encoder'.last.failed)
          => encoder'.last.err = ""]_vars

\* Close returns nil when it follows calls that returned nil, one of them an
\* Encode.
CloseReturnsNilAfterEncode ==
    [][(/\ encoder.clean /\ encoder.enc.emitter.state # "emitEndState" /\ encoder.encoded
        /\ encoder'.last.op = "Close" /\ encoder'.calls = encoder.calls + 1
        /\ ~encoder'.last.failed)
          => encoder'.last.err = ""]_vars

\* ---------------------------------------------------------------------------
\* Anchors and block scalars

\* The number of chunks s in the output.
Written(s) == Cardinality({i \in DOMAIN EncoderOutput : EncoderOutput[i].s = s})

\* The events of the given types handed to the state machine with an anchor.
Anchored(types) ==
    LET e == encoder.enc.emitter IN
    Cardinality({i \in 1..e.eventsHead :
                    e.eventsQueue[i].Type \in types /\ e.eventsQueue[i].Anchor # ""})

\* C36: the anchor of each SCALAR, SEQUENCE-START and MAPPING-START event is
\* written as "&name", and "*name" is written for ALIAS events only: the
\* output has one "&" for each anchored node event and one "*" for each ALIAS
\* event.
C36_AnchorsAndAliases ==
    encoder.clean =>
        /\ Written("&") = Anchored({"SCALAR", "SEQUENCE_START", "MAPPING_START"})
        /\ Written("*") = Anchored({"ALIAS"})

\* The anchors of scalars are written with "&" and aliases with "*", in the
\* documents that have no anchored collection.
AnchorsOfScalarsAndAliases ==
    encoder.clean /\ Anchored({"SEQUENCE_START", "MAPPING_START"}) = 0 =>
        /\ Written("&") = Anchored({"SCALAR"})
        /\ Written("*") = Anchored({"ALIAS"})

AnchoredScalarAndAliasWritten ==
    encoder.clean /\ Written("&") = 1 /\ Written("*") = 1

\* The number of line breaks a value ends with.
TrailingBreaks(value) ==
    LET runs == ScalarRuns(value) IN
    IF runs = <<>> \/ runs[Len(runs)].c # "\n" THEN 0 ELSE runs[Len(runs)].n

\* The chomping indicator in the output of the block scalar b: what follows
\* "|" or ">" and the indentation indicator, "" when that is a line break.
ChompingWritten(b) ==
    LET i == IF EncoderOutput[b.at + 1].s = " " THEN b.at + 2 ELSE b.at + 1
        j == IF ScalarRuns(b.value)[1].c \in {" ", "\n"} THEN i + 2 ELSE i + 1
    IN  IF EncoderOutput[j].s \in {"-", "+"} THEN EncoderOutput[j].s ELSE ""

\* C37: a literal or folded scalar is written with the chomping indicator "-"
\* when its value has no trailing line break, with "+" when the value ends
\* with two or more line breaks, and with none when it ends with exactly one.
C37_ChompingIndicator ==
    \A b \in encoder.w.blocks :
        /\ EncoderOutput[IF EncoderOutput[b.at + 1].s = " " THEN b.at + 2 ELSE b.at + 1].s
               \in {"|", ">"}
        /\ ChompingWritten(b) = CASE TrailingBreaks(b.value) = 0 -> "-"
                                  [] TrailingBreaks(b.value) = 1 -> ""
                                  [] OTHER -> "+"

\* C37 as amended: the indicator is "-" when the value has no trailing line
\* break, "+" when it ends with two or more line breaks or is one line break
\* and nothing else, and none when it ends with exactly one line break that
\* follows other text.
C37_ChompingIndicatorKeepsLoneBreak ==
    \A b \in encoder.w.blocks :
        /\ EncoderOutput[IF EncoderOutput[b.at + 1].s = " " THEN b.at + 2 ELSE b.at + 1].s
               \in {"|", ">"}
        /\ ChompingWritten(b) = CASE TrailingBreaks(b.value) = 0 -> "-"
                                  [] b.value = "\n" -> "+"
                                  [] TrailingBreaks(b.value) = 1 -> ""
                                  [] OTHER -> "+"

\* A scalar that is one line break and one that ends with one line break
\* were written, the first in literal and the second in folded style.
C37_Witness ==
    /\ encoder.clean
    /\ \E b1, b2 \in encoder.w.blocks :
          /\ b1.value = "\n" /\ b1.at = 0 /\ EncoderOutput[1].s = "|"
          /\ ChompingWritten(b1) = "+"
          /\ b2.value = "a\n" /\ b2.at > 0 /\ ChompingWritten(b2) = ""
          /\ \E i \in DOMAIN EncoderOutput : EncoderOutput[i].s = ">"

\* ---------------------------------------------------------------------------
\* Foot comments of mappings

\* The foot comment of the MAPPING-END event parser.mapping was given.
EndFoot == commented.input[Len(commented.input)].foot_comment

EndOfCommentedBlockMapping ==
    /\ commented.pc = "returned"
    /\ commented.n.Style # "FlowStyle"
    /\ commented.n.Content # <<>>
    /\ EndFoot # ""

\* C38: the foot comment found at the end of a block mapping that is not
\* empty is on the mapping's last value node when parser.mapping returns, and
\* the mapping node's own foot comment is empty.
C38_FootToLastValue ==
    EndOfCommentedBlockMapping =>
        /\ commented.n.Content[Len(commented.n.Content)].FootComment = EndFoot
        /\ commented.n.FootComment = ""

\* C38 as amended: the foot comment is on the mapping's last key node, and
\* the mapping node's own foot comment is empty.
C38_FootToLastKey ==
    EndOfCommentedBlockMapping =>
        /\ commented.n.Content[Len(commented.n.Content) - 1].FootComment = EndFoot
        /\ commented.n.FootComment = ""

\* A block mapping of two pairs has returned; the comment of its end has
\* taken the place of the last key's own.
C38_Witness ==
    /\ EndOfCommentedBlockMapping
    /\ Len(commented.n.Content) = 4
    /\ commented.input[5].foot_comment = "# v2" /\ commented.input[6].Type = "TAIL_COMMENT"
    /\ commented.n.Content[3].FootComment = "# e"
    /\ commented.n.Content[4].FootComment = ""

====
